--------------------------- MODULE SubagentProofs ---------------------------
(***************************************************************************)
(* Theorems about the subagent scheduler (AgentScheduler) and about the    *)
(* completion barrier of the main task that owns its rows                  *)
(* (TaskCoordinator).                                                      *)
(***************************************************************************)
EXTENDS TaskCoordinator, FiniteSetTheorems, SequenceTheorems, TLAPS

-----------------------------------------------------------------------------
(* The inductive invariant.                                               *)
Pcs == {"none", "start", "enter", "run", "handler", "watch", "emit", "finish", "over"}

\* A thread of the object may be executing: the object keeps its slot.
Held(x) == x.status = "running" \/ StillRunning(x)

\* The row says of an object what the scheduler's last emission would.
Shows(r, x) ==
    /\ r.live = (x.status \in {"queued", "running", "timed_out_running"} \/ x.alive)
    /\ r.status = IF x.asked /\ r.live THEN "cancelling" ELSE x.status
    /\ r.resumable = (x.resumable /\ x.status \in BudgetStops)

\* Status and threads of one object agree, and what still executes is the
\* object its id names.
ObjectInv(o) ==
    /\ obj[o].status = "new" => pc[o] = "none"
    /\ pc[o] # "none" => obj[o].status \notin {"new", "queued"}
    /\ obj[o].alive => obj[o].status \in {"timed_out_running", "cancelled"}
    /\ pc[o] \in {"start", "enter", "run", "handler"} => obj[o].status = "running"
    /\ pc[o] = "watch" \/ watch[o] \in {"armed", "handler"} => StillRunning(obj[o])
    /\ watch[o] # "none" => pc[o] \in {"emit", "finish", "over"}
    /\ pc[o] \in {"none", "start", "enter"} => child[o] = "none"
    /\ child[o] = "running" => pc[o] \in {"run", "watch"} \/ watch[o] = "armed"
    /\ Held(obj[o]) => Current(o)
    /\ obj[o].status = "queued" => Current(o) \/ submit[o[1]] = "over"

\* An object that waits in the queue, or is about to be put there.
Waits(o) == /\ obj[o].status \in {"queued", "cancelled"} /\ ~obj[o].alive
            /\ pc[o] = "none"
            /\ obj[o].status = "queued" => Current(o)

QueueInv == /\ \A i \in 1..Len(queue) : Waits(queue[i])
            /\ \A i, j \in 1..Len(queue) : queue[i] = queue[j] => i = j

\* submit() has registered task t and not yet put it into the queue.
PutInv(t) ==
    submit[t] = "put" =>
        /\ Waits(<<t, 1>>) /\ tasks[t] \in {0, 1}
        /\ \A i \in 1..Len(queue) : queue[i] # <<t, 1>>
        /\ record[t].run = 1 /\ record[t].status \notin BudgetStops

\* No object of a task exists before submit(), and none of a later round than
\* the row's; the row is the present object's.
RoundInv(t) ==
    /\ tasks[t] # 0 => obj[<<t, tasks[t]>>].status # "new"
    /\ submit[t] = "no" => /\ tasks[t] = 0 /\ record[t].status = "none"
                           /\ \A r \in Rounds : obj[<<t, r>>].status = "new"
    /\ \A r \in Rounds : r > record[t].run => obj[<<t, r>>].status = "new"
    /\ IF t \in Owned
       THEN /\ tasks[t] # 0 => record[t].run = tasks[t]
            /\ submit[t] # "no" => record[t].status # "none"
            /\ submit[t] = "no" => record[t].run = 1
       ELSE record[t].status = "none" /\ record[t].run = 1

\* What the row says: the end only when nothing waits or executes, and the
\* object's state when no emission of it is to come.
RowInv(t) ==
    LET o == <<t, tasks[t]>> IN
    t \in Owned /\ tasks[t] # 0 =>
        /\ obj[o].status = "queued" \/ Held(obj[o]) => ~Over(record[t])
        /\ ~Owed(o) /\ (submit[t] = "over" \/ obj[o].status # "queued" \/ tasks[t] > 1)
               => Shows(record[t], obj[o])

LimitInv == /\ Cardinality(Live) <= MaxLimit
            /\ \A o, p \in Live : o[1] \in Serial /\ p[1] \in Serial => o = p

IInv == /\ TypeOK
        /\ \A o \in Objects : ObjectInv(o)
        /\ QueueInv
        /\ \A t \in Tasks : PutInv(t) /\ RoundInv(t) /\ RowInv(t)
        /\ LimitInv
-----------------------------------------------------------------------------
(* Sequences.                                                             *)
\* What is left of a sequence without its i-th element.
LEMMA RemoveAtFacts ==
    ASSUME NEW S, NEW q \in Seq(S), NEW i \in 1..Len(q), NEW r, r = RemoveAt(q, i)
    PROVE  /\ r \in Seq(S) /\ Len(r) = Len(q) - 1
           /\ \A j \in 1..Len(r) : r[j] = q[IF j < i THEN j ELSE j + 1]
  <1>1. Len(q) \in Nat /\ \A k \in 1..Len(q) : q[k] \in S
    OBVIOUS
  <1> DEFINE a == SubSeq(q, 1, i - 1)
             b == SubSeq(q, i + 1, Len(q))
  <1>2. a \in Seq(S) /\ Len(a) = i - 1 /\ \A k \in 1..(i - 1) : a[k] = q[k]
    OBVIOUS
  <1>3. b \in Seq(S) /\ Len(b) = Len(q) - i /\ \A k \in 1..(Len(q) - i) : b[k] = q[k + i]
    OBVIOUS
  <1>4. r = a \o b
    BY DEF RemoveAt
  <1> HIDE DEF a, b
  <1>5. r \in Seq(S) /\ Len(r) = Len(a) + Len(b)
    BY <1>2, <1>3, <1>4, ConcatProperties
  <1>6. Len(r) = Len(q) - 1
    BY <1>1, <1>2, <1>3, <1>5
  <1>7. ASSUME NEW j \in 1..Len(r)
        PROVE  r[j] = q[IF j < i THEN j ELSE j + 1]
    <2>1. CASE j < i
      <3>1. j \in 1..Len(a) /\ r[j] = a[j]
        BY <1>2, <1>3, <1>4, <1>6, <1>7, <2>1, ConcatProperties
      <3> QED BY <1>2, <2>1, <3>1
    <2>2. CASE ~(j < i)
      <3>1. j - Len(a) \in 1..Len(b) /\ r[j] = b[j - Len(a)]
        BY <1>1, <1>2, <1>3, <1>4, <1>6, <1>7, <2>2, ConcatProperties
      <3>2. (j - Len(a)) + i = j + 1
        BY <1>2
      <3> QED BY <1>2, <1>3, <2>2, <3>1, <3>2
    <2> QED BY <2>1, <2>2
  <1> QED BY <1>5, <1>6, <1>7

\* What is left was there before, and what was there once is there once.
LEMMA RemoveAtKeeps ==
    ASSUME NEW S, NEW q \in Seq(S), NEW i \in 1..Len(q), NEW r, r = RemoveAt(q, i)
    PROVE  /\ r \in Seq(S)
           /\ \A j \in 1..Len(r) : \E k \in 1..Len(q) : k # i /\ r[j] = q[k]
           /\ (\A j, k \in 1..Len(q) : q[j] = q[k] => j = k)
                  => \A j, k \in 1..Len(r) : r[j] = r[k] => j = k
  <1> DEFINE from(j) == IF j < i THEN j ELSE j + 1
  <1>1. r \in Seq(S) /\ Len(r) = Len(q) - 1 /\ \A j \in 1..Len(r) : r[j] = q[from(j)]
    BY RemoveAtFacts
  <1>2. \A j \in 1..Len(r) : from(j) \in 1..Len(q) /\ from(j) # i
    BY <1>1
  <1>3. \A j, k \in 1..Len(r) : from(j) = from(k) => j = k
    BY <1>1
  <1> HIDE DEF from
  <1> QED BY <1>1, <1>2, <1>3
-----------------------------------------------------------------------------
(* One object and its threads.  LocalInv is the part of ObjectInv that     *)
(* speaks of the object's own values x, p, c, w of obj, pc, child, watch.  *)
LocalInv(x, p, c, w) ==
    /\ x.status = "new" => p = "none"
    /\ p # "none" => x.status \notin {"new", "queued"}
    /\ x.alive => x.status \in {"timed_out_running", "cancelled"}
    /\ p \in {"start", "enter", "run", "handler"} => x.status = "running"
    /\ p = "watch" \/ w \in {"armed", "handler"} => StillRunning(x)
    /\ w # "none" => p \in {"emit", "finish", "over"}
    /\ p \in {"none", "start", "enter"} => c = "none"
    /\ c = "running" => p \in {"run", "watch"} \/ w = "armed"

\* The object may be forgotten: it has ended and nothing of it executes.
Forgettable(x) == x.status \in Retainable /\ ~StillRunning(x)

\* The row would be the same.
SameRow(x, y) == /\ x.status = y.status /\ x.alive = y.alive
                 /\ x.asked = y.asked /\ x.resumable = y.resumable

ObjectTypes == /\ obj \in [Objects -> Object]
               /\ pc \in [Objects -> Pcs]
               /\ child \in [Objects -> {"none", "running", "ok", "error"}]
               /\ watch \in [Objects -> {"none", "armed", "handler", "over"}]

OthersRest(o) == \A p \in Objects : p # o =>
    obj'[p] = obj[p] /\ pc'[p] = pc[p] /\ child'[p] = child[p] /\ watch'[p] = watch[p]

Forgets(os) ==
    /\ tasks' \in [Tasks -> 0..MaxRounds]
    /\ \A t \in Tasks : \/ tasks'[t] = tasks[t]
                        \/ /\ tasks'[t] = 0 /\ tasks[t] # 0
                           /\ Forgettable(os[<<t, tasks[t]>>])

\* What a step of the executor, the child or the callback of o amounts to.
ThreadStep(o) ==
    /\ UNCHANGED <<submit, queue, turns, ctlVars>>
    /\ ObjectTypes' /\ OthersRest(o) /\ Forgets(obj')
    /\ pc[o] # "none" /\ pc'[o] # "none"
    /\ LocalInv(obj'[o], pc'[o], child'[o], watch'[o])
    /\ Held(obj'[o]) => Held(obj[o])
    /\ obj'[o].resumable => obj[o].resumable \/ o[1] \in Continuable
    /\ \/ record' = Emitted({o}, obj')
       \/ /\ record' = record
          /\ \/ pc'[o] \in {"start", "watch", "emit"}
             \/ ~Owed(o) /\ SameRow(obj[o], obj'[o])

LEMMA PruneForgets ==
    ASSUME tasks \in [Tasks -> 0..MaxRounds], NEW os, Prune(os)
    PROVE  Forgets(os)
  <1>1. PICK drop \in SUBSET RetainableSet(os) :
            tasks' = [t \in Tasks |-> IF \E o \in drop : o[1] = t THEN 0 ELSE tasks[t]]
    BY DEF Prune
  <1>2. ASSUME NEW t \in Tasks, NEW o \in drop, o[1] = t
        PROVE  tasks[t] # 0 /\ Forgettable(os[<<t, tasks[t]>>])
    <2>1. o \in Objects /\ Current(o) /\ os[o].status \in Retainable
          /\ ~(os[o].status = "cancelled" /\ os[o].alive)
      BY <1>2 DEF RetainableSet
    <2>2. o = <<t, tasks[t]>> /\ tasks[t] \in Rounds
      BY <1>2, <2>1 DEF Objects, Current
    <2> QED BY <2>1, <2>2, SchedulerAssumption DEF Forgettable, StillRunning, Retainable, Rounds
  <1>3. ASSUME NEW t \in Tasks
        PROVE  /\ tasks'[t] \in 0..MaxRounds
               /\ \/ tasks'[t] = tasks[t]
                  \/ tasks'[t] = 0 /\ tasks[t] # 0 /\ Forgettable(os[<<t, tasks[t]>>])
    BY <1>1, <1>2, SchedulerAssumption
  <1>4. tasks' \in [Tasks -> 0..MaxRounds]
    BY <1>1, <1>3
  <1> QED BY <1>3, <1>4 DEF Forgets

LEMMA KeptForgets ==
    ASSUME tasks \in [Tasks -> 0..MaxRounds], UNCHANGED tasks, NEW os
    PROVE  Forgets(os)
  BY DEF Forgets

LEMMA Settles ==
    ASSUME ObjectTypes, tasks \in [Tasks -> 0..MaxRounds], NEW o \in Objects,
           NEW s \in Status, NEW alive \in BOOLEAN, NEW resumable \in BOOLEAN,
           Settle(o, s, alive, resumable), UNCHANGED <<child, watch>>
    PROVE  /\ ObjectTypes' /\ OthersRest(o) /\ Forgets(obj')
           /\ obj'[o].status = s /\ obj'[o].alive = alive /\ obj'[o].resumable = resumable
           /\ child'[o] = child[o] /\ watch'[o] = watch[o]
           /\ pc'[o] = IF alive THEN "watch" ELSE "emit"
  <1> DEFINE x == [obj[o] EXCEPT !.status = s, !.alive = alive, !.resumable = resumable]
  <1>1. obj[o] \in Object
    BY DEF ObjectTypes
  <1>2. x \in Object /\ x.status = s /\ x.alive = alive /\ x.resumable = resumable
    BY <1>1 DEF Object
  <1>3. obj' = [obj EXCEPT ![o] = x]
    BY DEF Settle
  <1>4. pc' = [pc EXCEPT ![o] = IF alive THEN "watch" ELSE "emit"]
    BY DEF Settle
  <1>5. Forgets(obj')
    BY PruneForgets DEF Settle
  <1> HIDE DEF x
  <1>6. obj' \in [Objects -> Object] /\ pc' \in [Objects -> Pcs]
    BY <1>2, <1>3, <1>4 DEF ObjectTypes, Pcs
  <1>7. OthersRest(o)
    BY <1>3, <1>4 DEF ObjectTypes, OthersRest
  <1> QED BY <1>2, <1>3, <1>4, <1>5, <1>6, <1>7 DEF ObjectTypes
\* The end of a run, or the detachment of its child, is such a step.
LEMMA SettlingStep ==
    ASSUME ObjectTypes, tasks \in [Tasks -> 0..MaxRounds], NEW o \in Objects,
           LocalInv(obj[o], pc[o], child[o], watch[o]),
           NEW s \in Status, NEW alive \in BOOLEAN, NEW resumable \in BOOLEAN,
           Settle(o, s, alive, resumable),
           UNCHANGED <<child, watch, submit, queue, turns, record, ctlVars>>,
           pc[o] \in {"enter", "run", "handler"},
           child[o] = "running" => alive, resumable => o[1] \in Continuable,
           IF alive THEN s \in {"timed_out_running", "cancelled"} ELSE s \in Retainable
    PROVE  ThreadStep(o)
  <1>1. /\ ObjectTypes' /\ OthersRest(o) /\ Forgets(obj')
        /\ obj'[o].status = s /\ obj'[o].alive = alive /\ obj'[o].resumable = resumable
        /\ child'[o] = child[o] /\ watch'[o] = watch[o]
        /\ pc'[o] = IF alive THEN "watch" ELSE "emit"
    BY Settles
  <1>2. obj[o].status = "running" /\ watch[o] = "none"
    BY DEF LocalInv
  <1>3. LocalInv(obj'[o], pc'[o], child'[o], watch'[o])
    BY <1>1, <1>2 DEF LocalInv, StillRunning, Retainable
  <1>4. Held(obj[o]) /\ pc'[o] \in {"start", "watch", "emit"}
    BY <1>1, <1>2 DEF Held
  <1>5. UNCHANGED <<submit, queue, turns, ctlVars>> /\ record' = record
    OBVIOUS
  <1>6. pc[o] # "none" /\ pc'[o] # "none"
    BY <1>1
  <1> QED BY <1>1, <1>3, <1>4, <1>5, <1>6 DEF ThreadStep

\* So are the executor's other steps, that leave the tasks alone.
LEMMA QuietStep ==
    ASSUME ObjectTypes, NEW o \in Objects,
           NEW x \in Object, NEW p \in Pcs,
           NEW c \in {"none", "running", "ok", "error"},
           NEW w \in {"none", "armed", "handler", "over"},
           obj' = [obj EXCEPT ![o] = x], pc' = [pc EXCEPT ![o] = p],
           child' = [child EXCEPT ![o] = c], watch' = [watch EXCEPT ![o] = w]
    PROVE  /\ ObjectTypes' /\ OthersRest(o)
           /\ obj'[o] = x /\ pc'[o] = p /\ child'[o] = c /\ watch'[o] = w
  BY DEF ObjectTypes, OthersRest

LEMMA SameAt ==
    ASSUME NEW S, NEW T, NEW f \in [S -> T], NEW o \in S
    PROVE  f = [f EXCEPT ![o] = f[o]]
  OBVIOUS

LEMMA ExecutorStep ==
    ASSUME ObjectTypes, tasks \in [Tasks -> 0..MaxRounds], NEW o \in Objects,
           LocalInv(obj[o], pc[o], child[o], watch[o]), Executor(o)
    PROVE  ThreadStep(o)
  <1> DEFINE x == obj[o]
             c == child[o]
             w == watch[o]
  <1>1. /\ x \in Object /\ pc[o] \in Pcs /\ c \in {"none", "running", "ok", "error"}
        /\ w \in {"none", "armed", "handler", "over"}
    BY DEF ObjectTypes
  <1>2. /\ obj = [obj EXCEPT ![o] = x] /\ pc = [pc EXCEPT ![o] = pc[o]]
        /\ child = [child EXCEPT ![o] = c] /\ watch = [watch EXCEPT ![o] = w]
    BY SameAt DEF ObjectTypes
  <1>3. LocalInv(x, pc[o], c, w)
    OBVIOUS
  <1>4. CASE EmitRunning(o)
    <2>1. /\ ObjectTypes' /\ OthersRest(o)
          /\ obj'[o] = x /\ pc'[o] = "enter" /\ child'[o] = c /\ watch'[o] = w
      <3>1. /\ obj' = [obj EXCEPT ![o] = x] /\ pc' = [pc EXCEPT ![o] = "enter"]
            /\ child' = [child EXCEPT ![o] = c] /\ watch' = [watch EXCEPT ![o] = w]
        BY <1>2, <1>4 DEF EmitRunning
      <3>2. "enter" \in Pcs
        BY DEF Pcs
      <3> QED BY <1>1, <3>1, <3>2, QuietStep
    <2>2. LocalInv(x, "enter", c, w)
      BY <1>3, <1>4 DEF EmitRunning, LocalInv
    <2>3. record' = Emitted({o}, obj')
      BY <1>4 DEF EmitRunning
    <2> QED BY <1>4, <2>1, <2>2, <2>3, KeptForgets DEF EmitRunning, ThreadStep
  <1>5. CASE CancelledAtStart(o)
    <2>1. child[o] # "running"
      BY <1>3, <1>5 DEF CancelledAtStart, LocalInv
    <2> QED BY <1>5, <2>1, SettlingStep DEF CancelledAtStart, Status, Retainable
  <1>6. CASE Begin(o)
    <2>1. /\ ObjectTypes' /\ OthersRest(o)
          /\ obj'[o] = x /\ pc'[o] = "run" /\ child'[o] = "running" /\ watch'[o] = w
      <3>1. /\ obj' = [obj EXCEPT ![o] = x] /\ pc' = [pc EXCEPT ![o] = "run"]
            /\ child' = [child EXCEPT ![o] = "running"] /\ watch' = [watch EXCEPT ![o] = w]
        BY <1>2, <1>6 DEF Begin
      <3>2. "run" \in Pcs
        BY DEF Pcs
      <3> QED BY <1>1, <3>1, <3>2, QuietStep
    <2>2. LocalInv(x, "run", "running", w) /\ SameRow(x, x)
      BY <1>3, <1>6 DEF Begin, LocalInv, SameRow
    <2>3. ~Owed(o)
      BY <1>6 DEF Begin, Owed
    <2> QED BY <1>6, <2>1, <2>2, <2>3, KeptForgets DEF Begin, ThreadStep
  <1>7. CASE RunReturns(o)
    <2>1. CASE obj[o].cancel /\ Settle(o, "cancelled", FALSE, FALSE)
      BY <1>7, <2>1, SettlingStep DEF RunReturns, Status, Retainable
    <2>2. CASE ~obj[o].cancel /\ pc' = [pc EXCEPT ![o] = "handler"] /\ UNCHANGED <<tasks, obj>>
      <3>1. /\ ObjectTypes' /\ OthersRest(o)
            /\ obj'[o] = x /\ pc'[o] = "handler" /\ child'[o] = c /\ watch'[o] = w
        <4>1. /\ obj' = [obj EXCEPT ![o] = x] /\ pc' = [pc EXCEPT ![o] = "handler"]
              /\ child' = [child EXCEPT ![o] = c] /\ watch' = [watch EXCEPT ![o] = w]
          BY <1>2, <1>7, <2>2 DEF RunReturns
        <4>2. "handler" \in Pcs
          BY DEF Pcs
        <4> QED BY <1>1, <4>1, <4>2, QuietStep
      <3>2. LocalInv(x, "handler", c, w) /\ SameRow(x, x)
        BY <1>3, <1>7 DEF RunReturns, LocalInv, SameRow
      <3>3. ~Owed(o)
        BY <1>7 DEF RunReturns, Owed
      <3> QED BY <1>7, <2>2, <3>1, <3>2, <3>3, KeptForgets DEF RunReturns, ThreadStep
    <2> QED BY <1>7, <2>1, <2>2 DEF RunReturns
  <1>8. CASE RunRaises(o)
    <2>1. PICK s \in {"cancelled", "failed", "tool_limit"}, b \in BOOLEAN :
              Settle(o, s, FALSE, b) /\ (b => o[1] \in Continuable)
      BY <1>8 DEF RunRaises
    <2> QED BY <1>8, <2>1, SettlingStep DEF RunRaises, Status, Retainable
  <1>9. CASE RunTimesOut(o)
    <2> DEFINE alive == c = "running"
               s == IF alive THEN "timed_out_running" ELSE "timed_out"
    <2>1. PICK b \in BOOLEAN : Settle(o, s, alive, b) /\ (b => o[1] \in Continuable)
      BY <1>9 DEF RunTimesOut
    <2>2. /\ s \in Status /\ alive \in BOOLEAN
          /\ IF alive THEN s \in {"timed_out_running", "cancelled"} ELSE s \in Retainable
      BY DEF Status, Retainable
    <2>3. /\ pc[o] \in {"enter", "run", "handler"} /\ (child[o] = "running" => alive)
          /\ UNCHANGED <<child, watch, submit, queue, turns, record, ctlVars>>
      BY <1>9 DEF RunTimesOut
    <2> HIDE DEF alive, s
    <2> QED BY <2>1, <2>2, <2>3, SettlingStep
  <1>10. CASE RunCancelled(o)
    <2> DEFINE alive == c = "running"
    <2>1. /\ Settle(o, "cancelled", alive, FALSE)
          /\ pc[o] \in {"enter", "run", "handler"} /\ (child[o] = "running" => alive)
          /\ UNCHANGED <<child, watch, submit, queue, turns, record, ctlVars>>
      BY <1>10 DEF RunCancelled
    <2>2. "cancelled" \in Status /\ "cancelled" \in Retainable /\ alive \in BOOLEAN
      BY DEF Status, Retainable
    <2> HIDE DEF alive
    <2> QED BY <2>1, <2>2, SettlingStep
  <1>11. CASE HandlerReturns(o)
    <2>1. child[o] # "running"
      BY <1>3, <1>11 DEF HandlerReturns, LocalInv
    <2> QED BY <1>11, <2>1, SettlingStep DEF HandlerReturns, Status, Retainable
  <1>12. CASE HandlerRaises(o)
    <2>1. child[o] # "running"
      BY <1>3, <1>12 DEF HandlerRaises, LocalInv
    <2> QED BY <1>12, <2>1, SettlingStep DEF HandlerRaises, Status, Retainable
  <1>13. CASE Watch(o)
    <2>1. /\ ObjectTypes' /\ OthersRest(o)
          /\ obj'[o] = x /\ pc'[o] = "emit" /\ child'[o] = c /\ watch'[o] = "armed"
      <3>1. /\ obj' = [obj EXCEPT ![o] = x] /\ pc' = [pc EXCEPT ![o] = "emit"]
            /\ child' = [child EXCEPT ![o] = c] /\ watch' = [watch EXCEPT ![o] = "armed"]
        BY <1>2, <1>13 DEF Watch
      <3>2. "emit" \in Pcs
        BY DEF Pcs
      <3> QED BY <1>1, <3>1, <3>2, QuietStep
    <2>2. LocalInv(x, "emit", c, "armed")
      BY <1>3, <1>13 DEF Watch, LocalInv, StillRunning
    <2> QED BY <1>13, <2>1, <2>2, KeptForgets DEF Watch, ThreadStep
  <1>14. CASE EmitSettled(o)
    <2>1. /\ ObjectTypes' /\ OthersRest(o)
          /\ obj'[o] = x /\ pc'[o] = "finish" /\ child'[o] = c /\ watch'[o] = w
      <3>1. /\ obj' = [obj EXCEPT ![o] = x] /\ pc' = [pc EXCEPT ![o] = "finish"]
            /\ child' = [child EXCEPT ![o] = c] /\ watch' = [watch EXCEPT ![o] = w]
        BY <1>2, <1>14 DEF EmitSettled
      <3>2. "finish" \in Pcs
        BY DEF Pcs
      <3> QED BY <1>1, <3>1, <3>2, QuietStep
    <2>2. LocalInv(x, "finish", c, w)
      BY <1>3, <1>14 DEF EmitSettled, LocalInv
    <2>3. record' = Emitted({o}, obj')
      BY <1>14 DEF EmitSettled
    <2> QED BY <1>14, <2>1, <2>2, <2>3, KeptForgets DEF EmitSettled, ThreadStep
  <1>15. CASE Finish(o)
    <2> DEFINE y == [obj[o] EXCEPT !.done = TRUE]
    <2>1. y \in Object /\ SameRow(x, y)
      BY <1>1 DEF Object, SameRow
    <2>2. obj' = [obj EXCEPT ![o] = y]
      BY <1>15 DEF Finish
    <2>3. LocalInv(y, "over", c, w) /\ (Held(y) => Held(x)) /\ (y.resumable => x.resumable)
      BY <1>1, <1>3, <1>15, <2>1 DEF Finish, LocalInv, StillRunning, SameRow, Held
    <2> HIDE DEF y
    <2>4. /\ ObjectTypes' /\ OthersRest(o)
          /\ obj'[o] = y /\ pc'[o] = "over" /\ child'[o] = c /\ watch'[o] = w
      <3>1. /\ pc' = [pc EXCEPT ![o] = "over"]
            /\ child' = [child EXCEPT ![o] = c] /\ watch' = [watch EXCEPT ![o] = w]
        BY <1>2, <1>15 DEF Finish
      <3>2. "over" \in Pcs
        BY DEF Pcs
      <3> QED BY <1>1, <2>1, <2>2, <3>1, <3>2, QuietStep
    <2>5. ~Owed(o)
      BY <1>15 DEF Finish, Owed
    <2> QED BY <1>15, <2>1, <2>3, <2>4, <2>5, KeptForgets DEF Finish, ThreadStep
  <1> QED BY <1>4, <1>5, <1>6, <1>7, <1>8, <1>9, <1>10, <1>11, <1>12, <1>13, <1>14, <1>15
          DEF Executor
\* The callback's blocks under the lock end what the child's outliving began.
LEMMA ReconcilingStep ==
    ASSUME ObjectTypes, NEW o \in Objects,
           LocalInv(obj[o], pc[o], child[o], watch[o]),
           NEW x \in Object, x.status \in Retainable, ~x.alive,
           x.resumable => obj[o].resumable \/ o[1] \in Continuable,
           watch[o] \in {"armed", "handler"},
           child[o] # "running" \/ watch[o] = "handler",
           Reconciled(o, x), Forgets(obj')
    PROVE  ThreadStep(o)
  <1> DEFINE p == pc[o]
             c == child[o]
  <1>1. p \in Pcs /\ c \in {"none", "running", "ok", "error"}
    BY DEF ObjectTypes
  <1>2. /\ obj' = [obj EXCEPT ![o] = x] /\ pc' = [pc EXCEPT ![o] = p]
        /\ child' = [child EXCEPT ![o] = c] /\ watch' = [watch EXCEPT ![o] = "over"]
    BY SameAt DEF ObjectTypes, Reconciled
  <1>3. LocalInv(x, p, c, "over") /\ p # "none" /\ ~Held(x)
    BY DEF LocalInv, Retainable, Held, StillRunning
  <1> HIDE DEF p, c
  <1>4. /\ ObjectTypes' /\ OthersRest(o)
        /\ obj'[o] = x /\ pc'[o] = p /\ child'[o] = c /\ watch'[o] = "over"
    BY <1>1, <1>2, QuietStep
  <1>5. record' = Emitted({o}, obj') /\ UNCHANGED <<submit, queue, turns, ctlVars>>
    BY DEF Reconciled
  <1>6. pc[o] # "none"
    BY <1>3 DEF p
  <1> QED BY <1>3, <1>4, <1>5, <1>6 DEF ThreadStep

LEMMA CallbackStep ==
    ASSUME ObjectTypes, tasks \in [Tasks -> 0..MaxRounds], NEW o \in Objects,
           LocalInv(obj[o], pc[o], child[o], watch[o]), Callback(o)
    PROVE  ThreadStep(o)
  <1>1. obj[o] \in Object
    BY DEF ObjectTypes
  <1>2. CASE ReconcileError(o)
    <2>1. PICK status \in {"cancelled", "timed_out", "failed"}, b \in BOOLEAN :
              /\ Reconciled(o, [obj[o] EXCEPT !.status = status, !.alive = FALSE,
                                              !.resumable = b])
              /\ b => o[1] \in Continuable
      BY <1>2 DEF ReconcileError
    <2> DEFINE x == [obj[o] EXCEPT !.status = status, !.alive = FALSE, !.resumable = b]
    <2>2. /\ x \in Object /\ x.status \in Retainable /\ ~x.alive
          /\ x.resumable => obj[o].resumable \/ o[1] \in Continuable
      BY <1>1, <2>1 DEF Object, Status, Retainable
    <2>3. Reconciled(o, x)
      BY <2>1
    <2>4. watch[o] = "armed" /\ child[o] # "running" /\ Forgets(obj')
      BY <1>2, PruneForgets DEF ReconcileError
    <2> HIDE DEF x
    <2> QED BY <2>2, <2>3, <2>4, ReconcilingStep
  <1>3. CASE ReconcileCancelled(o)
    <2> DEFINE x == [obj[o] EXCEPT !.status = "cancelled", !.alive = FALSE,
                                   !.resumable = FALSE]
    <2>1. /\ x \in Object /\ x.status \in Retainable /\ ~x.alive
          /\ x.resumable => obj[o].resumable \/ o[1] \in Continuable
      BY <1>1 DEF Object, Status, Retainable
    <2>2. Reconciled(o, x) /\ watch[o] = "armed" /\ child[o] # "running" /\ Forgets(obj')
      BY <1>3, KeptForgets DEF ReconcileCancelled
    <2> HIDE DEF x
    <2> QED BY <2>1, <2>2, ReconcilingStep
  <1>4. CASE ReconcileStopped(o)
    <2>1. PICK b \in BOOLEAN :
              /\ Reconciled(o, [obj[o] EXCEPT !.status = "timed_out", !.alive = FALSE,
                                              !.resumable = b])
              /\ o[1] \in Continuable
      BY <1>4 DEF ReconcileStopped
    <2> DEFINE x == [obj[o] EXCEPT !.status = "timed_out", !.alive = FALSE,
                                   !.resumable = b]
    <2>2. /\ x \in Object /\ x.status \in Retainable /\ ~x.alive
          /\ x.resumable => obj[o].resumable \/ o[1] \in Continuable
      BY <1>1, <2>1 DEF Object, Status, Retainable
    <2>3. Reconciled(o, x)
      BY <2>1
    <2>4. watch[o] = "armed" /\ child[o] # "running" /\ Forgets(obj')
      BY <1>4, KeptForgets DEF ReconcileStopped
    <2> HIDE DEF x
    <2> QED BY <2>2, <2>3, <2>4, ReconcilingStep
  <1>5. CASE ReconcileResult(o)
    <2> DEFINE x == obj[o]
               p == pc[o]
               c == child[o]
    <2>1. p \in Pcs /\ c \in {"none", "running", "ok", "error"}
      BY DEF ObjectTypes
    <2>2. /\ obj' = [obj EXCEPT ![o] = x] /\ pc' = [pc EXCEPT ![o] = p]
          /\ child' = [child EXCEPT ![o] = c] /\ watch' = [watch EXCEPT ![o] = "handler"]
      BY <1>5, SameAt DEF ObjectTypes, ReconcileResult
    <2>3. LocalInv(x, p, c, "handler") /\ p # "none" /\ SameRow(x, x)
      BY <1>5 DEF ReconcileResult, LocalInv, SameRow
    <2>4. p \in {"start", "watch", "emit"} \/ ~Owed(o)
      BY DEF Owed
    <2>5. UNCHANGED <<tasks, submit, queue, turns, record, ctlVars>>
      BY <1>5 DEF ReconcileResult
    <2>6. /\ ObjectTypes' /\ OthersRest(o)
          /\ obj'[o] = x /\ pc'[o] = p /\ child'[o] = c /\ watch'[o] = "handler"
      BY <1>1, <2>1, <2>2, QuietStep
    <2> QED BY <2>3, <2>4, <2>5, <2>6, KeptForgets DEF ThreadStep
  <1>6. CASE LateResult(o)
    <2>1. watch[o] = "handler" /\ Forgets(obj')
      BY <1>6, PruneForgets DEF LateResult
    <2>2. CASE Reconciled(o, [obj[o] EXCEPT !.status = "completed", !.alive = FALSE,
                                            !.asked = FALSE])
      <3> DEFINE x == [obj[o] EXCEPT !.status = "completed", !.alive = FALSE,
                                     !.asked = FALSE]
      <3>1. /\ x \in Object /\ x.status \in Retainable /\ ~x.alive
            /\ x.resumable => obj[o].resumable \/ o[1] \in Continuable
        BY <1>1 DEF Object, Status, Retainable
      <3>2. Reconciled(o, x)
        BY <2>2
      <3> HIDE DEF x
      <3> QED BY <2>1, <3>1, <3>2, ReconcilingStep
    <2>3. CASE Reconciled(o, [obj[o] EXCEPT !.status = "failed", !.alive = FALSE])
      <3> DEFINE x == [obj[o] EXCEPT !.status = "failed", !.alive = FALSE]
      <3>1. /\ x \in Object /\ x.status \in Retainable /\ ~x.alive
            /\ x.resumable => obj[o].resumable \/ o[1] \in Continuable
        BY <1>1 DEF Object, Status, Retainable
      <3>2. Reconciled(o, x)
        BY <2>3
      <3> HIDE DEF x
      <3> QED BY <2>1, <3>1, <3>2, ReconcilingStep
    <2> QED BY <1>6, <2>2, <2>3 DEF LateResult
  <1> QED BY <1>2, <1>3, <1>4, <1>5, <1>6 DEF Callback

LEMMA ChildStep ==
    ASSUME ObjectTypes, tasks \in [Tasks -> 0..MaxRounds], NEW o \in Objects,
           LocalInv(obj[o], pc[o], child[o], watch[o]), ChildEnds(o)
    PROVE  ThreadStep(o)
  <1> DEFINE x == obj[o]
             p == pc[o]
             w == watch[o]
  <1>1. PICK c \in {"ok", "error"} : child' = [child EXCEPT ![o] = c]
    BY DEF ChildEnds
  <1>2. x \in Object /\ p \in Pcs /\ w \in {"none", "armed", "handler", "over"}
    BY DEF ObjectTypes
  <1>3. /\ obj' = [obj EXCEPT ![o] = x] /\ pc' = [pc EXCEPT ![o] = p]
        /\ watch' = [watch EXCEPT ![o] = w]
    BY SameAt DEF ObjectTypes, ChildEnds
  <1>4. LocalInv(x, p, c, w) /\ p # "none" /\ SameRow(x, x)
    BY DEF ChildEnds, LocalInv, SameRow
  <1>5. p \in {"start", "watch", "emit"} \/ ~Owed(o)
    BY DEF Owed
  <1>6. UNCHANGED <<tasks, submit, queue, turns, record, ctlVars>>
    BY DEF ChildEnds
  <1>7. /\ ObjectTypes' /\ OthersRest(o)
        /\ obj'[o] = x /\ pc'[o] = p /\ child'[o] = c /\ watch'[o] = w
    BY <1>1, <1>2, <1>3, QuietStep
  <1> QED BY <1>4, <1>5, <1>6, <1>7, KeptForgets DEF ThreadStep
-----------------------------------------------------------------------------
(* What an emission writes.                                               *)
LEMMA ObjectPair ==
    ASSUME NEW o \in Objects
    PROVE  /\ o[1] \in Tasks /\ o[2] \in Rounds /\ o = <<o[1], o[2]>>
           /\ o[2] \in Nat /\ o[2] # 0
  BY SchedulerAssumption DEF Objects, Rounds

LEMMA PairObject ==
    ASSUME NEW t \in Tasks, tasks \in [Tasks -> 0..MaxRounds], tasks[t] # 0
    PROVE  /\ <<t, tasks[t]>> \in Objects /\ tasks[t] \in Rounds
           /\ Current(<<t, tasks[t]>>)
  BY SchedulerAssumption DEF Objects, Rounds, Current

LEMMA EmittedFunction ==
    ASSUME NEW S, NEW os, record' = Emitted(S, os)
    PROVE  record' = [t \in Tasks |-> record'[t]]
  BY DEF Emitted

LEMMA EmissionOf ==
    ASSUME NEW o \in Objects, NEW os, record' = Emitted({o}, os)
    PROVE  \A t \in Tasks :
             record'[t] = IF o[1] = t /\ MayWrite(o) THEN Projected(record[t], os[o])
                                                     ELSE record[t]
  <1> TAKE t \in Tasks
  <1> DEFINE mine == {p \in {o} : p[1] = t /\ MayWrite(p)}
  <1>1. record'[t] = IF mine = {} THEN record[t]
                     ELSE Projected(record[t], os[CHOOSE p \in mine : TRUE])
    BY DEF Emitted
  <1>2. CASE o[1] = t /\ MayWrite(o)
    <2>1. mine = {o}
      BY <1>2
    <2>2. (CHOOSE p \in mine : TRUE) = o
      BY <2>1
    <2> QED BY <1>1, <1>2, <2>1, <2>2
  <1>3. CASE ~(o[1] = t /\ MayWrite(o))
    <2>1. mine = {}
      BY <1>3
    <2> QED BY <1>1, <1>3, <2>1
  <1> QED BY <1>2, <1>3

LEMMA ProjectionFacts ==
    ASSUME NEW r \in Record, NEW x \in Object, x.status # "new"
    PROVE  LET y == Projected(r, x) IN
           /\ y \in Record /\ y.run = r.run /\ y.handled = r.handled
           /\ Shows(y, x) /\ y.status # "none"
           /\ y.status \in BudgetStops => x.status \in BudgetStops
           /\ x.status = "queued" \/ Held(x) => ~Over(y)
  <1> DEFINE y == Projected(r, x)
             live == x.status \in {"queued", "running", "timed_out_running"} \/ x.alive
  <1>1. /\ x.status \in Status /\ x.alive \in BOOLEAN /\ x.asked \in BOOLEAN
        /\ x.resumable \in BOOLEAN
    BY DEF Object
  <1>2. /\ y.status = (IF x.asked /\ live THEN "cancelling" ELSE x.status)
        /\ y.live = live /\ y.resumable = (x.resumable /\ x.status \in BudgetStops)
        /\ y.run = r.run /\ y.handled = r.handled
    BY DEF Projected, Record
  <1>3. /\ y.status \in RecordStatus /\ live \in BOOLEAN
        /\ (x.resumable /\ x.status \in BudgetStops) \in BOOLEAN
    BY <1>1, <1>2 DEF RecordStatus, Status
  <1>4. y \in Record
    BY <1>2, <1>3 DEF Projected, Record
  <1>5. Shows(y, x)
    BY <1>2 DEF Shows
  <1>6. y.status # "none" /\ (y.status \in BudgetStops => x.status \in BudgetStops)
    BY <1>1, <1>2 DEF Status, BudgetStops
  <1>7. x.status = "queued" \/ Held(x) => ~Over(y)
    BY <1>2 DEF Held, StillRunning, Over
  <1> HIDE DEF y
  <1> QED BY <1>2, <1>4, <1>5, <1>6, <1>7 DEF y

\* Live shrinks: the limits hold on.
LEMMA ObjectsFinite == IsFiniteSet(Objects)
  <1>1. IsFiniteSet(Rounds)
    BY FS_Interval, SchedulerAssumption DEF Rounds
  <1> QED BY <1>1, FS_Product, SchedulerAssumption DEF Objects

LEMMA LimitKept ==
    ASSUME LimitInv, Live' \subseteq Live
    PROVE  LimitInv'
  <1>1. IsFiniteSet(Live)
    BY ObjectsFinite, FS_Subset DEF Live
  <1>2. Cardinality(Live') <= Cardinality(Live) /\ Cardinality(Live) \in Nat
        /\ Cardinality(Live') \in Nat
    BY <1>1, FS_Subset, FS_CardinalityType
  <1>3. Cardinality(Live') <= MaxLimit
    BY <1>2, SchedulerAssumption DEF LimitInv
  <1>4. \A o, p \in Live' : o[1] \in Serial /\ p[1] \in Serial => o = p
    BY DEF LimitInv
  <1> QED BY <1>3, <1>4 DEF LimitInv

LEMMA OccupiesHeld ==
    ASSUME NEW o
    PROVE  Occupies(o, obj[o]) <=> Current(o) /\ Held(obj[o])
  BY DEF Occupies, Held, StillRunning
-----------------------------------------------------------------------------
(* A thread's step preserves the invariant.                               *)
OtherTypes == /\ submit \in [Tasks -> {"no", "put", "return", "over"}]
              /\ queue \in Seq(Objects)
              /\ limit \in 1..MaxLimit
              /\ closed \in BOOLEAN /\ worker \in BOOLEAN

LEMMA TypeParts ==
    /\ TypeOK <=> /\ tasks \in [Tasks -> 0..MaxRounds]
                  /\ ObjectTypes /\ OtherTypes /\ record \in [Tasks -> Record]
    /\ TypeOK' <=> /\ tasks' \in [Tasks -> 0..MaxRounds]
                   /\ ObjectTypes' /\ OtherTypes' /\ record' \in [Tasks -> Record]
  BY DEF TypeOK, ObjectTypes, OtherTypes, Pcs

LEMMA OtherTypesKept ==
    ASSUME OtherTypes, UNCHANGED <<submit, queue, turns, ctlVars>>
    PROVE  OtherTypes'
  BY DEF OtherTypes, ctlVars

\* ObjectInv with its own part named.
LEMMA ObjectParts ==
    ASSUME NEW o
    PROVE  /\ ObjectInv(o) <=> /\ LocalInv(obj[o], pc[o], child[o], watch[o])
                               /\ Held(obj[o]) => Current(o)
                               /\ obj[o].status = "queued" => Current(o) \/ submit[o[1]] = "over"
           /\ ObjectInv(o)' <=> /\ LocalInv(obj'[o], pc'[o], child'[o], watch'[o])
                                /\ Held(obj'[o]) => Current(o)'
                                /\ obj'[o].status = "queued" => Current(o)' \/ submit'[o[1]] = "over"
  BY DEF ObjectInv, LocalInv

\* What has not ended stays the object its id names.
LEMMA ForgetsEnded ==
    ASSUME tasks \in [Tasks -> 0..MaxRounds], NEW os, Forgets(os), NEW o \in Objects
    PROVE  /\ Current(o) /\ ~Forgettable(os[o]) => Current(o)'
           /\ Current(o)' => Current(o)
  <1>1. o[1] \in Tasks /\ o[2] # 0 /\ o = <<o[1], o[2]>>
    BY ObjectPair
  <1>2. \/ tasks'[o[1]] = tasks[o[1]]
        \/ tasks'[o[1]] = 0 /\ Forgettable(os[<<o[1], tasks[o[1]]>>])
    BY <1>1 DEF Forgets
  <1> QED BY <1>1, <1>2 DEF Current

LEMMA ThreadKeepsTypes ==
    ASSUME TypeOK, NEW o \in Objects, ThreadStep(o)
    PROVE  TypeOK'
  <1>1. obj'[o] \in Object /\ obj'[o].status # "new"
    BY DEF ThreadStep, ObjectTypes, LocalInv
  <1>2. record' \in [Tasks -> Record]
    <2>1. CASE record' = Emitted({o}, obj')
      <3>1. ASSUME NEW t \in Tasks
            PROVE  record'[t] \in Record
        <4>1. record[t] \in Record
          BY TypeParts
        <4>2. Projected(record[t], obj'[o]) \in Record
          BY <1>1, <4>1, ProjectionFacts
        <4> QED BY <2>1, <4>1, <4>2, EmissionOf
      <3>2. record' = [t \in Tasks |-> record'[t]]
        BY <2>1 DEF Emitted
      <3> QED BY <3>1, <3>2
    <2> QED BY <2>1, TypeParts DEF ThreadStep
  <1>3. OtherTypes'
    BY TypeParts, OtherTypesKept DEF ThreadStep
  <1> QED BY <1>2, <1>3, TypeParts DEF ThreadStep, Forgets

LEMMA ThreadKeepsObjects ==
    ASSUME IInv, NEW o \in Objects, ThreadStep(o), NEW p \in Objects
    PROVE  ObjectInv(p)'
  <1>1. ObjectInv(p) /\ tasks \in [Tasks -> 0..MaxRounds]
    BY TypeParts DEF IInv
  <1>2. Current(p) /\ ~Forgettable(obj'[p]) => Current(p)'
    BY <1>1, ForgetsEnded DEF ThreadStep
  <1>3. submit' = submit
    BY DEF ThreadStep
  <1>4. \A x : Held(x) \/ x.status = "queued" => ~Forgettable(x)
    BY DEF Held, Forgettable, Retainable, StillRunning
  <1>5. CASE p = o
    <2>1. LocalInv(obj'[o], pc'[o], child'[o], watch'[o]) /\ (Held(obj'[o]) => Held(obj[o]))
          /\ pc'[o] # "none"
      BY DEF ThreadStep
    <2>2. obj'[o].status # "queued"
      BY <2>1 DEF LocalInv
    <2> QED BY <1>1, <1>2, <1>4, <1>5, <2>1, <2>2, ObjectParts
  <1>6. CASE p # o
    <2>1. obj'[p] = obj[p] /\ pc'[p] = pc[p] /\ child'[p] = child[p] /\ watch'[p] = watch[p]
      BY <1>6 DEF ThreadStep, OthersRest
    <2> QED BY <1>1, <1>2, <1>3, <1>4, <2>1, ObjectParts
  <1> QED BY <1>5, <1>6

LEMMA ThreadKeepsWaits ==
    ASSUME IInv, NEW o \in Objects, ThreadStep(o), NEW p \in Objects, Waits(p)
    PROVE  p # o /\ Waits(p)'
  <1>1. p # o
    BY DEF Waits, ThreadStep
  <1>2. obj'[p] = obj[p] /\ pc'[p] = pc[p]
    BY <1>1 DEF ThreadStep, OthersRest
  <1>3. obj'[p].status = "queued" => ~Forgettable(obj'[p])
    BY DEF Forgettable, Retainable
  <1>4. Current(p) /\ ~Forgettable(obj'[p]) => Current(p)'
    BY TypeParts, ForgetsEnded DEF IInv, ThreadStep
  <1> QED BY <1>1, <1>2, <1>3, <1>4 DEF Waits

LEMMA ThreadKeepsQueue ==
    ASSUME IInv, NEW o \in Objects, ThreadStep(o)
    PROVE  QueueInv'
  <1>1. queue' = queue /\ queue \in Seq(Objects) /\ QueueInv
    BY TypeParts DEF ThreadStep, IInv, OtherTypes
  <1>2. \A i \in 1..Len(queue) : queue[i] \in Objects /\ Waits(queue[i])
    BY <1>1 DEF QueueInv
  <1>3. ASSUME NEW i \in 1..Len(queue)
        PROVE  Waits(queue[i])'
    <2>1. PICK p \in Objects : p = queue[i]
      BY <1>2
    <2>2. Waits(p)'
      BY <1>2, <2>1, ThreadKeepsWaits
    <2> QED BY <1>1, <2>1, <2>2 DEF Waits, Current
  <1> QED BY <1>1, <1>3 DEF QueueInv, Waits, Current

LEMMA ThreadKeepsLimit ==
    ASSUME IInv, NEW o \in Objects, ThreadStep(o)
    PROVE  LimitInv'
  <1>1. ASSUME NEW p \in Live'
        PROVE  p \in Live
    <2>1. p \in Objects /\ Current(p)' /\ Held(obj'[p])
      BY <1>1 DEF Live, Occupies, Held, StillRunning, Current
    <2>2. Current(p)
      BY <2>1, TypeParts, ForgetsEnded DEF IInv, ThreadStep
    <2>3. Held(obj[p])
      BY <2>1 DEF ThreadStep, OthersRest
    <2> QED BY <2>1, <2>2, <2>3, OccupiesHeld DEF Live
  <1> QED BY <1>1, LimitKept DEF IInv
\* A step of another object's threads, and o's own, as the row of t sees them.
LEMMA ThreadWrites ==
    ASSUME IInv, NEW o \in Objects, ThreadStep(o), NEW t \in Tasks
    PROVE  /\ record'[t] \in Record /\ record'[t].run = record[t].run
           /\ \/ record'[t] = record[t]
              \/ /\ o[1] = t /\ MayWrite(o)
                 /\ record'[t] = Projected(record[t], obj'[o])
           /\ o[1] = t /\ MayWrite(o) =>
                \/ record'[t] = Projected(record[t], obj'[o])
                \/ /\ record'[t] = record[t]
                   /\ \/ pc'[o] \in {"start", "watch", "emit"}
                      \/ ~Owed(o) /\ SameRow(obj[o], obj'[o])
  <1>1. record[t] \in Record
    BY TypeParts DEF IInv
  <1>2. obj'[o] \in Object /\ obj'[o].status # "new"
    BY DEF ThreadStep, ObjectTypes, LocalInv
  <1>3. Projected(record[t], obj'[o]) \in Record
        /\ Projected(record[t], obj'[o]).run = record[t].run
    BY <1>1, <1>2, ProjectionFacts
  <1>4. CASE record' = Emitted({o}, obj')
    <2>1. record'[t] = IF o[1] = t /\ MayWrite(o) THEN Projected(record[t], obj'[o])
                                                  ELSE record[t]
      BY <1>4, EmissionOf
    <2> QED BY <1>1, <1>3, <2>1
  <1>5. CASE record' # Emitted({o}, obj')
    BY <1>1, <1>5 DEF ThreadStep
  <1> QED BY <1>4, <1>5

LEMMA ThreadKeepsTask ==
    ASSUME IInv, NEW o \in Objects, ThreadStep(o), NEW t \in Tasks
    PROVE  PutInv(t)' /\ RoundInv(t)' /\ RowInv(t)'
  <1>1. /\ TypeOK /\ PutInv(t) /\ RoundInv(t) /\ RowInv(t) /\ ObjectInv(o)
        /\ tasks[t] \in 0..MaxRounds /\ record[t] \in Record
    BY TypeParts DEF IInv
  <1>2. /\ submit' = submit /\ queue' = queue
        /\ pc[o] # "none" /\ pc'[o] # "none" /\ obj'[o] \in Object
        /\ obj'[o].status \notin {"new", "queued"}
    BY DEF ThreadStep, LocalInv, ObjectTypes
  <1>3. obj[o].status \notin {"new", "queued"}
    BY <1>1, <1>2 DEF ObjectInv
  <1>4. tasks'[t] = tasks[t] \/ tasks'[t] = 0
    BY DEF ThreadStep, Forgets
  <1>5. \A r \in Rounds : <<t, r>> \in Objects /\ (<<t, r>> # o =>
            obj'[<<t, r>>] = obj[<<t, r>>] /\ pc'[<<t, r>>] = pc[<<t, r>>])
    BY DEF ThreadStep, OthersRest, Objects
  <1>6. 1 \in Rounds /\ o[1] \in Tasks /\ o[2] \in Rounds /\ o = <<o[1], o[2]>>
    BY ObjectPair, SchedulerAssumption DEF Rounds
  <1>7. /\ record'[t].run = record[t].run
        /\ \/ record'[t] = record[t]
           \/ /\ o[1] = t /\ MayWrite(o)
              /\ record'[t] = Projected(record[t], obj'[o])
    BY ThreadWrites
  <1>8. LET y == Projected(record[t], obj'[o]) IN
           /\ Shows(y, obj'[o]) /\ y.status # "none"
           /\ obj'[o].status = "queued" \/ Held(obj'[o]) => ~Over(y)
    BY <1>1, <1>2, ProjectionFacts
  <1>9. PutInv(t)'
    <2>1. SUFFICES ASSUME submit[t] = "put"
                   PROVE  PutInv(t)'
      BY <1>2 DEF PutInv
    <2>2. /\ Waits(<<t, 1>>) /\ tasks[t] \in {0, 1} /\ record[t].run = 1
          /\ record[t].status \notin BudgetStops
          /\ \A i \in 1..Len(queue) : queue[i] # <<t, 1>>
      BY <1>1, <2>1 DEF PutInv
    <2>3. <<t, 1>> # o /\ Waits(<<t, 1>>)'
      BY <1>5, <1>6, <2>2, ThreadKeepsWaits
    <2>4. record'[t] = record[t]
      BY <1>6, <1>7, <2>2, <2>3 DEF MayWrite
    <2> QED BY <1>2, <1>4, <2>2, <2>3, <2>4 DEF PutInv
  <1>10. RoundInv(t)'
    <2>1. tasks'[t] # 0 => tasks'[t] = tasks[t] /\ tasks[t] \in Rounds
      BY <1>1, <1>4, SchedulerAssumption DEF Rounds
    <2>2. tasks'[t] # 0 => obj'[<<t, tasks'[t]>>].status # "new"
      BY <1>1, <1>2, <1>5, <2>1 DEF RoundInv
    <2>3. ASSUME NEW r \in Rounds, obj[<<t, r>>].status = "new"
          PROVE  obj'[<<t, r>>].status = "new"
      BY <1>3, <1>5, <2>3
    <2>4. submit[t] = "no" => o[1] # t
      BY <1>1, <1>3, <1>6 DEF RoundInv
    <2>5. submit[t] = "no" => record'[t] = record[t] /\ tasks'[t] = 0
      BY <1>1, <1>4, <1>7, <2>4 DEF RoundInv
    <2>7. t \notin Owned => record'[t] = record[t]
      BY <1>7 DEF MayWrite
    <2>8. record[t].status # "none" => record'[t].status # "none"
      BY <1>7, <1>8
    <2> QED BY <1>1, <1>2, <1>7, <2>1, <2>2, <2>3, <2>5, <2>7, <2>8 DEF RoundInv
  <1>11. RowInv(t)'
    <2>1. SUFFICES ASSUME t \in Owned, tasks'[t] # 0
                   PROVE  RowInv(t)'
      BY DEF RowInv
    <2> DEFINE k == tasks[t]
               p == <<t, k>>
    <2>2. tasks'[t] = k /\ k # 0 /\ k \in Rounds /\ record[t].run = k
      BY <1>1, <1>4, <2>1, SchedulerAssumption DEF RoundInv, Rounds
    <2>3. /\ obj[p].status = "queued" \/ Held(obj[p]) => ~Over(record[t])
          /\ ~Owed(p) /\ (submit[t] = "over" \/ obj[p].status # "queued" \/ k > 1)
                 => Shows(record[t], obj[p])
      BY <1>1, <2>1, <2>2 DEF RowInv
    <2>4. SUFFICES /\ obj'[p].status = "queued" \/ Held(obj'[p]) => ~Over(record'[t])
                   /\ (/\ pc'[p] \notin {"start", "watch", "emit"}
                       /\ submit[t] = "over" \/ obj'[p].status # "queued" \/ k > 1)
                         => Shows(record'[t], obj'[p])
      BY <1>2, <2>2 DEF RowInv, Owed
    <2>5. CASE p = o
      <3>1. o[1] = t /\ MayWrite(o)
        BY <2>1, <2>2, <2>5 DEF MayWrite
      <3>2. \/ record'[t] = Projected(record[t], obj'[o])
            \/ /\ record'[t] = record[t]
               /\ \/ pc'[o] \in {"start", "watch", "emit"}
                  \/ ~Owed(o) /\ SameRow(obj[o], obj'[o])
        BY <3>1, ThreadWrites
      <3>3. Held(obj'[o]) => Held(obj[o])
        BY DEF ThreadStep
      <3>4. SameRow(obj[o], obj'[o]) /\ Shows(record[t], obj[o]) => Shows(record[t], obj'[o])
        BY DEF SameRow, Shows
      <3> HIDE DEF k, p
      <3> QED BY <1>2, <1>3, <1>8, <2>3, <2>5, <3>2, <3>3, <3>4
    <2>6. CASE p # o
      <3>1. obj'[p] = obj[p] /\ pc'[p] = pc[p]
        BY <1>5, <2>2, <2>6
      <3>2. record'[t] = record[t]
        BY <1>6, <1>7, <2>2, <2>6 DEF MayWrite
      <3> QED BY <2>3, <3>1, <3>2 DEF Owed
    <2> QED BY <2>5, <2>6
  <1> QED BY <1>9, <1>10, <1>11

LEMMA ThreadKeeps ==
    ASSUME IInv, NEW o \in Objects, ThreadStep(o)
    PROVE  IInv'
  <1>1. \A p \in Objects : ObjectInv(p)'
    BY ThreadKeepsObjects
  <1>2. \A t \in Tasks : PutInv(t)' /\ RoundInv(t)' /\ RowInv(t)'
    BY ThreadKeepsTask
  <1>3. TypeOK' /\ QueueInv' /\ LimitInv'
    BY ThreadKeepsTypes, ThreadKeepsQueue, ThreadKeepsLimit DEF IInv
  <1> QED BY <1>1, <1>2, <1>3 DEF IInv
-----------------------------------------------------------------------------
(* The dispatcher.                                                        *)
LEMMA RestKeeps ==
    ASSUME IInv, UNCHANGED <<tasks, obj, pc, child, watch, submit, record>>
    PROVE  /\ \A o \in Objects : ObjectInv(o)'
           /\ \A t \in Tasks : RoundInv(t)' /\ RowInv(t)'
           /\ LimitInv'
  <1>1. \A o \in Objects : ObjectInv(o)'
    BY DEF IInv, ObjectInv, Current
  <1>2. \A t \in Tasks : RoundInv(t)' /\ RowInv(t)'
    BY DEF IInv, RoundInv, RowInv, Owed
  <1>3. LimitInv'
    BY LimitKept DEF IInv, Live, Occupies, Current
  <1> QED BY <1>1, <1>2, <1>3

LEMMA ControlKeeps ==
    ASSUME IInv, UNCHANGED <<tasks, taskVars, submit, queue, turns, record>>,
           limit' \in 1..MaxLimit, closed' \in BOOLEAN, worker' \in BOOLEAN
    PROVE  IInv'
  <1>1. UNCHANGED <<tasks, obj, pc, child, watch, submit, record, queue>>
    BY DEF taskVars
  <1>2. TypeOK'
    BY <1>1 DEF IInv, TypeOK
  <1>3. QueueInv' /\ \A t \in Tasks : PutInv(t)'
    BY <1>1 DEF IInv, QueueInv, PutInv, Waits, Current
  <1> QED BY <1>1, <1>2, <1>3, RestKeeps DEF IInv

\* The invariant of the queue, element by element.
LEMMA QueueElements ==
    ASSUME IInv
    PROVE  /\ Len(queue) \in Nat /\ queue \in Seq(Objects)
           /\ \A i \in 1..Len(queue) : queue[i] \in Objects /\ Waits(queue[i])
           /\ \A i, j \in 1..Len(queue) : queue[i] = queue[j] => i = j
  BY TypeParts DEF IInv, OtherTypes, QueueInv

LEMMA QueueRemoved ==
    ASSUME IInv, NEW i \in 1..Len(queue), queue' = RemoveAt(queue, i)
    PROVE  /\ queue' \in Seq(Objects)
           /\ \A j \in 1..Len(queue') : \E k \in 1..Len(queue) : k # i /\ queue'[j] = queue[k]
           /\ \A j, k \in 1..Len(queue') : queue'[j] = queue'[k] => j = k
  <1>1. /\ queue \in Seq(Objects)
        /\ \A j, k \in 1..Len(queue) : queue[j] = queue[k] => j = k
    BY QueueElements
  <1> DEFINE r == RemoveAt(queue, i)
  <1>2. /\ r \in Seq(Objects)
        /\ \A j \in 1..Len(r) : \E k \in 1..Len(queue) : k # i /\ r[j] = queue[k]
        /\ (\A j, k \in 1..Len(queue) : queue[j] = queue[k] => j = k)
               => \A j, k \in 1..Len(r) : r[j] = r[k] => j = k
    <2> HIDE DEF r
    <2>1. r = RemoveAt(queue, i)
      BY DEF r
    <2> QED BY <1>1, <2>1, RemoveAtKeeps
  <1>3. queue' = r
    OBVIOUS
  <1> HIDE DEF r
  <1> QED BY <1>1, <1>2, <1>3

LEMMA DropKeeps ==
    ASSUME IInv, DropCancelled
    PROVE  IInv'
  <1>1. PICK i \in 1..Len(queue) : queue' = RemoveAt(queue, i)
    BY DEF DropCancelled
  <1>2. UNCHANGED <<tasks, obj, pc, child, watch, submit, record, limit, closed, worker>>
    BY DEF DropCancelled, taskVars, ctlVars
  <1>3. /\ queue' \in Seq(Objects)
        /\ \A j \in 1..Len(queue') : \E k \in 1..Len(queue) : queue'[j] = queue[k]
        /\ \A j, k \in 1..Len(queue') : queue'[j] = queue'[k] => j = k
    BY <1>1, QueueRemoved
  <1>4. TypeOK'
    BY <1>2, <1>3 DEF IInv, TypeOK
  <1>5. ASSUME NEW j \in 1..Len(queue')
        PROVE  Waits(queue[j])'
    BY <1>2, <1>3, QueueElements DEF Waits, Current
  <1>6. QueueInv'
    BY <1>3, <1>5 DEF QueueInv
  <1>7. ASSUME NEW t \in Tasks
        PROVE  PutInv(t)'
    <2>1. SUFFICES ASSUME submit[t] = "put"
                   PROVE  PutInv(t)'
      BY <1>2 DEF PutInv
    <2>2. /\ Waits(<<t, 1>>) /\ tasks[t] \in {0, 1} /\ record[t].run = 1
          /\ record[t].status \notin BudgetStops
          /\ \A j \in 1..Len(queue) : queue[j] # <<t, 1>>
      BY <2>1 DEF IInv, PutInv
    <2>3. Waits(<<t, 1>>)'
      BY <1>2, <2>2 DEF Waits, Current
    <2>4. \A j \in 1..Len(queue') : queue'[j] # <<t, 1>>
      BY <1>3, <2>2
    <2> QED BY <1>2, <2>2, <2>3, <2>4 DEF PutInv
  <1> QED BY <1>2, <1>4, <1>6, <1>7, RestKeeps DEF IInv

\* Start takes one runnable element of the queue, whichever has its turn.
LEMMA StartPicks ==
    ASSUME IInv, Start
    PROVE  \E i \in 1..Len(queue), o \in Objects :
             /\ o = queue[i] /\ Ready(o) /\ obj[o].status # "cancelled"
             /\ queue' = RemoveAt(queue, i)
             /\ obj' = [obj EXCEPT ![o].status = "running"]
             /\ pc'  = [pc EXCEPT ![o] = "start"]
  <1>1. PICK i \in 1..Len(queue) :
             /\ Ready(queue[i]) /\ obj[queue[i]].status # "cancelled"
             /\ queue' = RemoveAt(queue, i)
             /\ obj' = [obj EXCEPT ![queue[i]].status = "running"]
             /\ pc'  = [pc EXCEPT ![queue[i]] = "start"]
    BY DEF Start
  <1>2. queue[i] \in Objects
    BY QueueElements
  <1> QED BY <1>1, <1>2

LEMMA StartKeeps ==
    ASSUME IInv, Start
    PROVE  IInv'
  <1>1. PICK i \in 1..Len(queue), o \in Objects :
             /\ o = queue[i] /\ Ready(o) /\ obj[o].status # "cancelled"
             /\ queue' = RemoveAt(queue, i)
             /\ obj' = [obj EXCEPT ![o].status = "running"]
             /\ pc'  = [pc EXCEPT ![o] = "start"]
    BY StartPicks
  <1>2. UNCHANGED <<tasks, child, watch, submit, record, limit, closed, worker>>
    BY DEF Start, ctlVars
  <1>3. /\ Waits(o) /\ obj[o].status = "queued" /\ Current(o) /\ pc[o] = "none"
        /\ ~obj[o].alive /\ obj[o] \in Object /\ ObjectTypes /\ ObjectInv(o)
    BY <1>1, QueueElements, TypeParts DEF Waits, IInv, ObjectTypes
  <1> DEFINE x == [obj[o] EXCEPT !.status = "running"]
  <1>4. x \in Object /\ x.status = "running" /\ ~x.alive
    BY <1>3 DEF Object, Status
  <1>5. obj' = [obj EXCEPT ![o] = x]
    BY <1>1
  <1> HIDE DEF x
  <1>6. /\ obj' \in [Objects -> Object] /\ pc' \in [Objects -> Pcs]
        /\ obj'[o] = x /\ pc'[o] = "start"
        /\ \A p \in Objects : p # o => obj'[p] = obj[p] /\ pc'[p] = pc[p]
    BY <1>1, <1>3, <1>4, <1>5 DEF ObjectTypes, Pcs
  <1>7. /\ queue' \in Seq(Objects)
        /\ \A j \in 1..Len(queue') : \E k \in 1..Len(queue) : k # i /\ queue'[j] = queue[k]
        /\ \A j, k \in 1..Len(queue') : queue'[j] = queue'[k] => j = k
    BY <1>1, QueueRemoved
  <1>8. TypeOK'
    BY <1>2, <1>6, <1>7, TypeParts DEF IInv, ObjectTypes, OtherTypes
  <1>9. ASSUME NEW p \in Objects
        PROVE  ObjectInv(p)'
    <2>1. CASE p = o
      <3>1. LocalInv(x, "start", child[o], watch[o])
        BY <1>3, <1>4 DEF ObjectInv, LocalInv
      <3> QED BY <1>2, <1>3, <1>4, <1>6, <2>1, <3>1, ObjectParts DEF Current
    <2>2. CASE p # o
      BY <1>2, <1>6, <2>2 DEF IInv, ObjectInv, Current
    <2> QED BY <2>1, <2>2
  <1>10. \A p \in Objects : p # o /\ Waits(p) => Waits(p)'
    BY <1>2, <1>6 DEF Waits, Current
  <1>11. QueueInv'
    <2>1. ASSUME NEW j \in 1..Len(queue')
          PROVE  Waits(queue[j])'
      <3>1. PICK p \in Objects : p = queue'[j] /\ p # o /\ Waits(p)
        BY <1>1, <1>7, QueueElements
      <3>2. Waits(p)'
        BY <1>10, <3>1
      <3> QED BY <3>1, <3>2 DEF Waits, Current
    <2> QED BY <1>7, <2>1 DEF QueueInv
  <1>12. ASSUME NEW t \in Tasks
         PROVE  PutInv(t)' /\ RoundInv(t)' /\ RowInv(t)'
    <2>1. PutInv(t) /\ RoundInv(t) /\ RowInv(t) /\ tasks[t] \in 0..MaxRounds
      BY TypeParts DEF IInv
    <2>2. \A r \in Rounds : <<t, r>> \in Objects
      BY DEF Objects
    <2>3. PutInv(t)'
      <3>1. SUFFICES ASSUME submit[t] = "put"
                     PROVE  PutInv(t)'
        BY <1>2 DEF PutInv
      <3>2. <<t, 1>> \in Objects /\ <<t, 1>> # o /\ Waits(<<t, 1>>)
        BY <1>1, <2>1, <2>2, <3>1, SchedulerAssumption DEF PutInv, Rounds
      <3>3. Waits(<<t, 1>>)'
        BY <1>10, <3>2
      <3>4. \A j \in 1..Len(queue') : queue'[j] # <<t, 1>>
        BY <1>7, <2>1, <3>1 DEF PutInv
      <3> QED BY <1>2, <2>1, <3>1, <3>3, <3>4 DEF PutInv
    <2>4. RoundInv(t)'
      <3>1. \A r \in Rounds : /\ obj[<<t, r>>].status = "new" => obj'[<<t, r>>].status = "new"
                              /\ obj[<<t, r>>].status # "new" => obj'[<<t, r>>].status # "new"
        BY <1>3, <1>4, <1>6, <2>2
      <3>2. tasks[t] # 0 => tasks[t] \in Rounds
        BY <2>1, SchedulerAssumption DEF Rounds
      <3> QED BY <1>2, <2>1, <3>1, <3>2 DEF RoundInv
    <2>5. RowInv(t)'
      <3>1. SUFFICES ASSUME t \in Owned, tasks[t] # 0
                     PROVE  RowInv(t)'
        BY <1>2 DEF RowInv
      <3>2. <<t, tasks[t]>> \in Objects
        BY <2>1, <2>2, <3>1, SchedulerAssumption DEF Rounds
      <3>3. CASE <<t, tasks[t]>> = o
        BY <1>2, <1>3, <1>6, <2>1, <3>1, <3>3 DEF RowInv, Owed
      <3>4. CASE <<t, tasks[t]>> # o
        BY <1>2, <1>6, <2>1, <3>1, <3>2, <3>4 DEF RowInv, Owed
      <3> QED BY <3>3, <3>4
    <2> QED BY <2>3, <2>4, <2>5
  <1>13. LimitInv'
    <2>1. \A p \in Live' : p \in Live \cup {o}
      BY <1>2, <1>6 DEF Live, Occupies, Current
    <2>2. IsFiniteSet(Live) /\ o \notin Live
      BY <1>3, ObjectsFinite, FS_Subset DEF Live, Occupies
    <2>3. Cardinality(Live \cup {o}) = Cardinality(Live) + 1 /\ IsFiniteSet(Live \cup {o})
      BY <2>2, FS_AddElement
    <2>4. Cardinality(Live') <= Cardinality(Live \cup {o})
          /\ Cardinality(Live') \in Nat /\ Cardinality(Live) \in Nat
      BY <2>1, <2>2, <2>3, FS_Subset, FS_CardinalityType
    <2>5. Cardinality(Live) < limit /\ (o[1] \in Serial => ~SerialBusy)
      BY <1>1, <1>3 DEF Ready
    <2>6. limit \in 1..MaxLimit
      BY TypeParts DEF IInv, OtherTypes
    <2>7. Cardinality(Live') <= MaxLimit
      BY <2>3, <2>4, <2>5, <2>6, SchedulerAssumption
    <2>8. \A p, q \in Live' : p[1] \in Serial /\ q[1] \in Serial => p = q
      BY <2>1, <2>5 DEF IInv, LimitInv, SerialBusy
    <2> QED BY <2>7, <2>8 DEF LimitInv
  <1> QED BY <1>8, <1>9, <1>11, <1>12, <1>13 DEF IInv
-----------------------------------------------------------------------------
(* cancel() and close() mark objects, and write the rows they change.     *)
Marked(o) ==
    /\ obj'[o].alive = obj[o].alive /\ obj'[o].resumable = obj[o].resumable
    /\ \/ obj'[o].status = obj[o].status
       \/ /\ obj[o].status = "queued" /\ obj'[o].status = "cancelled"
          /\ Current(o)

\* The row of t follows its present object, or nothing it shows has changed.
RowFollows(t) ==
    LET o == <<t, tasks[t]>> IN
    \/ /\ t \in Owned /\ tasks[t] # 0
       /\ record'[t] = Projected(record[t], obj'[o])
    \/ /\ record'[t] = record[t]
       /\ t \in Owned /\ tasks[t] # 0 => SameRow(obj[o], obj'[o])

MarkStep ==
    /\ UNCHANGED <<tasks, pc, child, watch, submit, queue>>
    /\ obj' \in [Objects -> Object] /\ record' = [t \in Tasks |-> record'[t]]
    /\ \A o \in Objects : Marked(o)
    /\ \A t \in Tasks : RowFollows(t)
    /\ limit' \in 1..MaxLimit /\ closed' \in BOOLEAN /\ worker' \in BOOLEAN

LEMMA MarkWrites ==
    ASSUME IInv, MarkStep, NEW t \in Tasks
    PROVE  /\ record'[t] \in Record /\ record'[t].run = record[t].run
           /\ \/ record'[t] = record[t]
              \/ /\ t \in Owned /\ tasks[t] # 0 /\ record'[t].status # "none"
                 /\ LET x == obj'[<<t, tasks[t]>>] IN
                    /\ Shows(record'[t], x)
                    /\ record'[t].status \in BudgetStops => x.status \in BudgetStops
                    /\ x.status = "queued" \/ Held(x) => ~Over(record'[t])
  <1>1. record[t] \in Record /\ tasks \in [Tasks -> 0..MaxRounds]
    BY TypeParts DEF IInv
  <1>2. CASE record'[t] = record[t]
    BY <1>1, <1>2
  <1>3. CASE record'[t] # record[t]
    <2> DEFINE o == <<t, tasks[t]>>
               x == obj'[o]
    <2>1. t \in Owned /\ tasks[t] # 0 /\ record'[t] = Projected(record[t], x)
      BY <1>3 DEF MarkStep, RowFollows
    <2>2. o \in Objects
      BY <1>1, <2>1, PairObject
    <2>3. x \in Object /\ x.status # "new"
      BY <2>1, <2>2 DEF MarkStep, Marked, IInv, RoundInv
    <2> HIDE DEF x
    <2>4. LET y == Projected(record[t], x) IN
           /\ y \in Record /\ y.run = record[t].run
           /\ Shows(y, x) /\ y.status # "none"
           /\ y.status \in BudgetStops => x.status \in BudgetStops
           /\ x.status = "queued" \/ Held(x) => ~Over(y)
      BY <1>1, <2>3, ProjectionFacts
    <2> QED BY <2>1, <2>4 DEF x
  <1> QED BY <1>2, <1>3

LEMMA MarkKeeps ==
    ASSUME IInv, MarkStep
    PROVE  IInv'
  <1>1. /\ UNCHANGED <<tasks, pc, child, watch, submit, queue>>
        /\ obj' \in [Objects -> Object] /\ \A o \in Objects : Marked(o)
        /\ tasks \in [Tasks -> 0..MaxRounds] /\ ObjectTypes /\ OtherTypes
    BY TypeParts DEF MarkStep, IInv
  <1>2. \A o \in Objects :
            /\ Held(obj'[o]) => Held(obj[o])
            /\ obj'[o].status = "queued" => obj[o].status = "queued"
            /\ obj'[o].status = "new" <=> obj[o].status = "new"
    <2> TAKE o \in Objects
    <2>1. ObjectInv(o) /\ Marked(o)
      BY <1>1 DEF IInv
    <2> QED BY <2>1 DEF ObjectInv, Marked, Held, StillRunning
  <1>3. TypeOK'
    <2>1. record' \in [Tasks -> Record]
      BY MarkWrites DEF MarkStep
    <2> QED BY <1>1, <2>1, TypeParts DEF ObjectTypes, OtherTypes, MarkStep
  <1>4. ASSUME NEW o \in Objects
        PROVE  ObjectInv(o)'
    <2>1. ObjectInv(o) /\ Marked(o)
      BY <1>1 DEF IInv
    <2>2. LocalInv(obj'[o], pc[o], child[o], watch[o])
      BY <2>1 DEF ObjectInv, LocalInv, Marked, StillRunning
    <2> QED BY <1>1, <1>2, <2>1, <2>2, ObjectParts DEF Current
  <1>5. \A o \in Objects : Waits(o) => Waits(o)'
    BY <1>1, <1>2 DEF Waits, Marked, Current
  <1>6. QueueInv'
    <2>1. ASSUME NEW j \in 1..Len(queue)
          PROVE  Waits(queue[j])'
      <3>1. PICK p \in Objects : p = queue[j] /\ Waits(p)
        BY QueueElements
      <3>2. Waits(p)'
        BY <1>5, <3>1
      <3> QED BY <1>1, <3>1, <3>2 DEF Waits, Current
    <2> QED BY <1>1, <2>1 DEF IInv, QueueInv
  <1>7. ASSUME NEW t \in Tasks
        PROVE  PutInv(t)' /\ RoundInv(t)' /\ RowInv(t)'
    <2>1. PutInv(t) /\ RoundInv(t) /\ RowInv(t) /\ tasks[t] \in 0..MaxRounds
      BY <1>1 DEF IInv
    <2>2. \A r \in Rounds : <<t, r>> \in Objects
      BY DEF Objects
    <2>3. /\ record'[t] \in Record /\ record'[t].run = record[t].run
          /\ \/ record'[t] = record[t]
             \/ /\ t \in Owned /\ tasks[t] # 0 /\ record'[t].status # "none"
                /\ LET x == obj'[<<t, tasks[t]>>] IN
                   /\ Shows(record'[t], x)
                   /\ record'[t].status \in BudgetStops => x.status \in BudgetStops
                   /\ x.status = "queued" \/ Held(x) => ~Over(record'[t])
      BY MarkWrites
    <2>4. PutInv(t)'
      <3>1. SUFFICES ASSUME submit[t] = "put"
                     PROVE  PutInv(t)'
        BY <1>1 DEF PutInv
      <3>2. <<t, 1>> \in Objects /\ Waits(<<t, 1>>)' /\ tasks[t] \in {0, 1}
        BY <1>5, <2>1, <2>2, <3>1, SchedulerAssumption DEF PutInv, Rounds
      <3>3. obj'[<<t, 1>>].status \notin BudgetStops
        BY <3>2 DEF Waits, BudgetStops
      <3>4. record'[t].status \notin BudgetStops
        BY <2>1, <2>3, <3>1, <3>2, <3>3 DEF PutInv
      <3> QED BY <1>1, <2>1, <2>3, <3>1, <3>2, <3>4 DEF PutInv
    <2>5. RoundInv(t)'
      <3>1. tasks[t] # 0 => tasks[t] \in Rounds
        BY <2>1, SchedulerAssumption DEF Rounds
      <3>2. \A r \in Rounds : obj'[<<t, r>>].status = "new" <=> obj[<<t, r>>].status = "new"
        BY <1>2, <2>2
      <3>3. \/ record'[t] = record[t]
            \/ t \in Owned /\ tasks[t] # 0 /\ record'[t].status # "none"
        BY <2>3
      <3> QED BY <1>1, <2>1, <2>3, <3>1, <3>2, <3>3 DEF RoundInv
    <2>6. RowInv(t)'
      <3>1. SUFFICES ASSUME t \in Owned, tasks[t] # 0
                     PROVE  RowInv(t)'
        BY <1>1 DEF RowInv
      <3> DEFINE o == <<t, tasks[t]>>
      <3>2. o \in Objects
        BY <1>1, <3>1, PairObject
      <3>3. /\ obj[o].status = "queued" \/ Held(obj[o]) => ~Over(record[t])
            /\ ~Owed(o) /\ (submit[t] = "over" \/ obj[o].status # "queued" \/ tasks[t] > 1)
                   => Shows(record[t], obj[o])
        BY <2>1, <3>1 DEF RowInv
      <3>4. /\ obj'[o].status = "queued" \/ Held(obj'[o]) => ~Over(record'[t])
            /\ ~Owed(o) /\ (submit[t] = "over" \/ obj'[o].status # "queued" \/ tasks[t] > 1)
                   => Shows(record'[t], obj'[o])
        <4>1. CASE record'[t] = record[t] /\ SameRow(obj[o], obj'[o])
          <5>1. Shows(record[t], obj[o]) => Shows(record[t], obj'[o])
            BY <4>1 DEF SameRow, Shows
          <5> QED BY <1>2, <3>2, <3>3, <4>1, <5>1 DEF SameRow
        <4>2. CASE record'[t] # record[t]
          BY <2>3, <4>2
        <4>3. CASE record'[t] = Projected(record[t], obj'[o])
          <5>1. record[t] \in Record /\ obj'[o] \in Object /\ obj'[o].status # "new"
            BY <1>1, <1>2, <2>1, <3>1, <3>2, TypeParts DEF IInv, RoundInv
          <5>2. LET y == Projected(record[t], obj'[o]) IN
                /\ Shows(y, obj'[o])
                /\ obj'[o].status = "queued" \/ Held(obj'[o]) => ~Over(y)
            BY <5>1, ProjectionFacts
          <5> QED BY <4>3, <5>2
        <4> QED BY <3>1, <4>1, <4>2, <4>3 DEF MarkStep, RowFollows
      <3> QED BY <1>1, <3>1, <3>4 DEF RowInv, Owed
    <2> QED BY <2>4, <2>5, <2>6
  <1>8. LimitInv'
    <2>1. ASSUME NEW p \in Live'
          PROVE  p \in Live
      BY <1>1, <1>2, OccupiesHeld DEF Live, Occupies, Held, StillRunning, Current
    <2> QED BY <2>1, LimitKept DEF IInv
  <1> QED BY <1>3, <1>4, <1>6, <1>7, <1>8 DEF IInv
LEMMA CancelMarks ==
    ASSUME IInv, NEW t \in Tasks, Cancel(t)
    PROVE  MarkStep
  <1> DEFINE o == <<t, tasks[t]>>
             x == Cancelled(obj[o])
  <1>1. tasks[t] # 0 /\ ObjectTypes /\ OtherTypes
        /\ tasks \in [Tasks -> 0..MaxRounds] /\ RoundInv(t)
    BY TypeParts DEF Cancel, Cancellable, IInv
  <1>2. o \in Objects /\ Current(o) /\ o[1] = t
    BY <1>1, PairObject
  <1>3. obj' = [obj EXCEPT ![o] = x] /\ record' = Emitted({o}, obj')
    BY DEF Cancel
  <1>4. UNCHANGED <<tasks, pc, child, watch, submit, queue, limit, closed, worker>>
    BY DEF Cancel, ctlVars
  <1>5. /\ x \in Object /\ x.alive = obj[o].alive /\ x.resumable = obj[o].resumable
        /\ \/ x.status = obj[o].status
           \/ obj[o].status = "queued" /\ x.status = "cancelled"
    <2>1. obj[o] \in Object
      BY <1>1, <1>2 DEF ObjectTypes
    <2> QED BY <2>1 DEF Cancelled, Object, Status
  <1>6. t \in Owned <=> MayWrite(o)
    BY <1>1, <1>2 DEF RoundInv, MayWrite
  <1> HIDE DEF x
  <1>7. obj' \in [Objects -> Object] /\ obj'[o] = x
        /\ \A p \in Objects : p # o => obj'[p] = obj[p]
    BY <1>1, <1>2, <1>3, <1>5 DEF ObjectTypes
  <1>8. \A p \in Objects : Marked(p)
    BY <1>2, <1>5, <1>7 DEF Marked
  <1>9. ASSUME NEW s \in Tasks
        PROVE  RowFollows(s)
    <2>1. record'[s] = IF o[1] = s /\ MayWrite(o) THEN Projected(record[s], obj'[o])
                                                  ELSE record[s]
      BY <1>2, <1>3, EmissionOf
    <2>2. CASE s = t /\ t \in Owned
      BY <1>1, <1>2, <1>6, <2>1, <2>2 DEF RowFollows
    <2>3. CASE s = t /\ t \notin Owned
      BY <1>6, <2>1, <2>3 DEF RowFollows
    <2>4. CASE s # t
      <3>1. record'[s] = record[s]
        BY <1>2, <2>1, <2>4
      <3>2. tasks[s] # 0 => <<s, tasks[s]>> \in Objects /\ <<s, tasks[s]>> # o
        BY <1>1, <2>4, PairObject
      <3> QED BY <1>7, <3>1, <3>2 DEF RowFollows, SameRow
    <2> QED BY <2>2, <2>3, <2>4
  <1>10. record' = [s \in Tasks |-> record'[s]]
    BY <1>3, EmittedFunction
  <1> QED BY <1>1, <1>4, <1>7, <1>8, <1>9, <1>10 DEF MarkStep, OtherTypes

LEMMA CloseMarks ==
    ASSUME IInv, NEW b \in BOOLEAN, Close(b)
    PROVE  MarkStep
  <1> DEFINE queued == {o \in Objects : Current(o) /\ obj[o].status \in {"queued"}}
             live   == {o \in Objects : /\ Current(o)
                                        /\ obj[o].status \in {"running", "timed_out_running"}}
  <1>1. ObjectTypes /\ OtherTypes /\ tasks \in [Tasks -> 0..MaxRounds]
        /\ record \in [Tasks -> Record]
    BY TypeParts DEF IInv
  <1>2. UNCHANGED <<tasks, pc, child, watch, submit, queue, limit, worker>>
        /\ closed' \in BOOLEAN
    BY DEF Close
  <1>3. CASE UNCHANGED <<obj, record>>
    <2>1. \A o \in Objects : Marked(o)
      BY <1>3 DEF Marked
    <2>2. \A t \in Tasks : RowFollows(t)
      BY <1>3 DEF RowFollows, SameRow
    <2>3. record' = [t \in Tasks |-> record'[t]]
      BY <1>1, <1>3
    <2> QED BY <1>1, <1>2, <1>3, <2>1, <2>2, <2>3 DEF MarkStep, ObjectTypes, OtherTypes
  <1>4. CASE /\ obj' = [o \in Objects |->
                    IF o \in queued THEN [obj[o] EXCEPT !.cancel = TRUE, !.done = TRUE,
                                                        !.status = "cancelled"]
                    ELSE IF o \in live THEN [obj[o] EXCEPT !.cancel = TRUE]
                    ELSE obj[o]]
             /\ record' = Emitted(queued, obj')
    <2>1. ASSUME NEW o \in Objects
          PROVE  obj'[o] \in Object /\ Marked(o) /\ (o \notin queued => SameRow(obj[o], obj'[o]))
      <3>1. obj[o] \in Object
        BY <1>1 DEF ObjectTypes
      <3>2. CASE o \in queued
        <4>1. obj'[o] = [obj[o] EXCEPT !.cancel = TRUE, !.done = TRUE, !.status = "cancelled"]
          BY <1>4, <3>2
        <4> QED BY <3>1, <3>2, <4>1 DEF Object, Status, Marked
      <3>3. CASE o \notin queued
        <4>1. \/ obj'[o] = [obj[o] EXCEPT !.cancel = TRUE]
              \/ obj'[o] = obj[o]
          BY <1>4, <3>3
        <4> QED BY <3>1, <3>3, <4>1 DEF Object, Marked, SameRow
      <3> QED BY <3>2, <3>3
    <2>2. obj' \in [Objects -> Object]
      BY <1>4, <2>1
    <2>3. ASSUME NEW t \in Tasks
          PROVE  RowFollows(t)
      <3> DEFINE o == <<t, tasks[t]>>
                 mine == {p \in queued : p[1] = t /\ MayWrite(p)}
      <3>1. record'[t] = IF mine = {} THEN record[t]
                         ELSE Projected(record[t], obj'[CHOOSE p \in mine : TRUE])
        BY <1>4 DEF Emitted
      <3>2. \A p \in mine : p = o /\ o \in queued /\ tasks[t] # 0 /\ t \in Owned
        BY ObjectPair DEF Current, MayWrite
      <3>3. CASE mine = {}
        <4>1. ASSUME t \in Owned, tasks[t] # 0
              PROVE  SameRow(obj[o], obj'[o])
          <5>1. o \in Objects /\ Current(o) /\ o[1] = t
            BY <1>1, <4>1, PairObject
          <5>2. MayWrite(o)
            BY <4>1, <5>1 DEF IInv, RoundInv, MayWrite
          <5>3. o \notin queued
            BY <3>3, <5>1, <5>2
          <5> HIDE DEF o, queued
          <5> QED BY <2>1, <5>1, <5>3
        <4> QED BY <3>1, <3>3, <4>1 DEF RowFollows
      <3>4. CASE mine # {}
        <4>1. (CHOOSE p \in mine : TRUE) = o /\ tasks[t] # 0 /\ t \in Owned
          BY <3>2, <3>4
        <4> QED BY <3>1, <3>4, <4>1 DEF RowFollows
      <3> QED BY <3>3, <3>4
    <2>4. record' = [t \in Tasks |-> record'[t]]
      <3> HIDE DEF queued
      <3>1. record' = Emitted(queued, obj')
        BY <1>4
      <3> QED BY <3>1, EmittedFunction
    <2> QED BY <1>1, <1>2, <2>1, <2>2, <2>3, <2>4 DEF MarkStep, OtherTypes
  <1> QED BY <1>3, <1>4 DEF Close
-----------------------------------------------------------------------------
(* submit() and resume_task() make a new object of task t its present one. *)
Birth(t, r) ==
    /\ tasks' = [tasks EXCEPT ![t] = r]
    /\ obj' = [obj EXCEPT ![<<t, r>>] = Fresh("queued")]
    /\ UNCHANGED <<pc, child, watch>>
    /\ obj[<<t, r>>].status = "new"
    /\ \A q \in Rounds : /\ ~Held(obj[<<t, q>>])
                         /\ obj[<<t, q>>].status = "queued" => submit[t] = "over"
    /\ \A s \in Tasks : submit'[s] = submit[s] \/ (s = t /\ submit[t] = "no")
    /\ \A s \in Tasks : s # t => record'[s] = record[s]

LEMMA FreshFacts ==
    LET x == Fresh("queued") IN
    /\ x \in Object /\ x.status = "queued" /\ ~x.alive /\ ~x.asked /\ ~x.resumable
    /\ ~Held(x)
  BY DEF Fresh, Object, Status, Held, StillRunning

LEMMA BirthObjects ==
    ASSUME IInv, NEW t \in Tasks, NEW r \in Rounds, Birth(t, r)
    PROVE  /\ tasks' \in [Tasks -> 0..MaxRounds] /\ ObjectTypes'
           /\ \A o \in Objects : ObjectInv(o)'
           /\ LimitInv'
           /\ Waits(<<t, r>>)'
           /\ \A o \in Objects : Waits(o) /\ (o[1] = t => obj[o].status # "queued") => Waits(o)'
  <1> DEFINE n == <<t, r>>
             x == Fresh("queued")
  <1>1. tasks \in [Tasks -> 0..MaxRounds] /\ ObjectTypes /\ r \in 0..MaxRounds
    BY TypeParts DEF IInv, Rounds
  <1>2. n \in Objects /\ n[1] = t /\ n[2] = r
    BY DEF Objects
  <1>3. x \in Object /\ x.status = "queued" /\ ~x.alive /\ ~Held(x)
    BY FreshFacts
  <1> HIDE DEF x
  <1>4. /\ obj' \in [Objects -> Object] /\ obj'[n] = x
        /\ \A o \in Objects : o # n => obj'[o] = obj[o]
        /\ tasks' \in [Tasks -> 0..MaxRounds] /\ tasks'[t] = r
        /\ \A s \in Tasks : s # t => tasks'[s] = tasks[s]
    BY <1>1, <1>2, <1>3 DEF Birth, ObjectTypes, x
  <1>5. /\ UNCHANGED <<pc, child, watch>> /\ pc[n] = "none"
        /\ \A o \in Objects : ObjectInv(o)
    BY <1>2 DEF Birth, IInv, ObjectInv
  <1>6. ObjectTypes'
    BY <1>1, <1>4, <1>5 DEF ObjectTypes
  <1>7. \A o \in Objects : o[1] = t => /\ ~Held(obj[o])
                                       /\ obj[o].status = "queued" => submit[t] = "over"
    BY ObjectPair DEF Birth
  <1>8. ASSUME NEW o \in Objects
        PROVE  ObjectInv(o)'
    <2>1. ObjectInv(o) /\ o[1] \in Tasks
      BY <1>5, ObjectPair
    <2>2. CASE o = n
      <3>1. LocalInv(x, pc[o], child[o], watch[o])
        BY <1>3, <1>5, <2>1, <2>2 DEF LocalInv, ObjectInv
      <3>2. Current(o)'
        BY <1>2, <1>4, <2>2 DEF Current
      <3> QED BY <1>4, <1>5, <2>2, <3>1, <3>2, ObjectParts
    <2>3. CASE o # n /\ o[1] = t
      <3>1. obj'[o] = obj[o] /\ (submit[t] = "over" => submit'[o[1]] = "over")
        BY <1>4, <2>3 DEF Birth
      <3> QED BY <1>5, <1>7, <2>1, <2>3, <3>1, ObjectParts
    <2>4. CASE o[1] # t
      <3>1. obj'[o] = obj[o] /\ submit'[o[1]] = submit[o[1]] /\ (Current(o)' <=> Current(o))
        BY <1>2, <1>4, <2>1, <2>4 DEF Birth, Current
      <3> QED BY <1>5, <2>1, <3>1, ObjectParts
    <2> QED BY <2>2, <2>3, <2>4
  <1>9. LimitInv'
    <2>1. ASSUME NEW p \in Live'
          PROVE  p \in Live
      <3>1. p \in Objects /\ Current(p)' /\ Held(obj'[p]) /\ p[1] \in Tasks
        BY ObjectPair DEF Live, Occupies, Held, StillRunning, Current
      <3>2. p # n /\ obj'[p] = obj[p]
        BY <1>3, <1>4, <3>1
      <3>3. p[1] # t
        BY <1>7, <3>1, <3>2
      <3>4. Current(p)
        BY <1>4, <3>1, <3>3 DEF Current
      <3> QED BY <3>1, <3>2, <3>4, OccupiesHeld DEF Live
    <2> QED BY <2>1, LimitKept DEF IInv
  <1>10. Waits(n)'
    BY <1>2, <1>3, <1>4, <1>5 DEF Waits, Current
  <1>11. ASSUME NEW o \in Objects, Waits(o), o[1] = t => obj[o].status # "queued"
         PROVE  Waits(o)'
    <2>1. o # n /\ o[1] \in Tasks
      BY <1>11, ObjectPair DEF Birth, Waits
    <2>2. obj'[o] = obj[o]
      BY <1>4, <2>1
    <2> QED BY <1>4, <1>5, <1>11, <2>1, <2>2 DEF Waits, Current
  <1> QED BY <1>4, <1>6, <1>8, <1>9, <1>10, <1>11

LEMMA BirthTasks ==
    ASSUME IInv, NEW t \in Tasks, NEW r \in Rounds, Birth(t, r),
           NEW s \in Tasks, s # t
    PROVE  /\ RoundInv(s)' /\ RowInv(s)'
           /\ (\A i \in 1..Len(queue') : (queue'[i] \in Objects /\ queue'[i][1] = t)
                  \/ \E j \in 1..Len(queue) : queue'[i] = queue[j])
                 => PutInv(s)'
  <1>1. /\ PutInv(s) /\ RoundInv(s) /\ RowInv(s)
        /\ tasks \in [Tasks -> 0..MaxRounds] /\ ObjectTypes
    BY TypeParts DEF IInv
  <1>2. /\ tasks'[s] = tasks[s] /\ submit'[s] = submit[s] /\ record'[s] = record[s]
    BY <1>1 DEF Birth
  <1>3. \A q \in Rounds : /\ <<s, q>> \in Objects
                          /\ obj'[<<s, q>>] = obj[<<s, q>>] /\ pc'[<<s, q>>] = pc[<<s, q>>]
    BY <1>1 DEF Birth, Objects, ObjectTypes
  <1>4. tasks[s] # 0 => tasks[s] \in Rounds
    BY <1>1, SchedulerAssumption DEF Rounds
  <1>5. RoundInv(s)'
    BY <1>1, <1>2, <1>3, <1>4 DEF RoundInv
  <1>6. RowInv(s)'
    BY <1>1, <1>2, <1>3, <1>4 DEF RowInv, Owed
  <1>7. ASSUME \A i \in 1..Len(queue') : (queue'[i] \in Objects /\ queue'[i][1] = t)
                  \/ \E j \in 1..Len(queue) : queue'[i] = queue[j]
        PROVE  PutInv(s)'
    <2>1. SUFFICES ASSUME submit[s] = "put"
                   PROVE  PutInv(s)'
      BY <1>2 DEF PutInv
    <2>2. /\ Waits(<<s, 1>>) /\ tasks[s] \in {0, 1} /\ record[s].run = 1
          /\ record[s].status \notin BudgetStops
          /\ \A j \in 1..Len(queue) : queue[j] # <<s, 1>>
      BY <1>1, <2>1 DEF PutInv
    <2>3. Waits(<<s, 1>>)'
      BY <1>2, <1>3, <2>2, SchedulerAssumption DEF Waits, Current, Rounds
    <2>4. \A i \in 1..Len(queue') : queue'[i] # <<s, 1>>
      BY <1>7, <2>2
    <2> QED BY <1>2, <2>2, <2>3, <2>4 DEF PutInv
  <1> QED BY <1>5, <1>6, <1>7
\* A sequence with one more element at its end.
LEMMA AppendFacts ==
    ASSUME NEW S, NEW q \in Seq(S), NEW e \in S, NEW r, r = Append(q, e)
    PROVE  /\ r \in Seq(S) /\ Len(q) \in Nat
           /\ \A i \in 1..Len(r) : r[i] = e \/ \E j \in 1..Len(q) : r[i] = q[j]
           /\ (\A j, k \in 1..Len(q) : q[j] = q[k] => j = k)
              /\ (\A j \in 1..Len(q) : q[j] # e)
                 => \A j, k \in 1..Len(r) : r[j] = r[k] => j = k
  <1>1. /\ r \in Seq(S) /\ Len(q) \in Nat /\ Len(r) = Len(q) + 1
        /\ \A j \in 1..Len(q) : r[j] = q[j]
        /\ r[Len(q) + 1] = e
    OBVIOUS
  <1>2. \A i \in 1..Len(r) : i \in 1..Len(q) \/ i = Len(q) + 1
    BY <1>1
  <1> QED BY <1>1, <1>2

LEMMA QueueAppended ==
    ASSUME IInv, NEW e \in Objects, queue' = Append(queue, e),
           \A i \in 1..Len(queue) : queue[i] # e
    PROVE  /\ queue' \in Seq(Objects)
           /\ \A i \in 1..Len(queue') : queue'[i] = e \/ \E j \in 1..Len(queue) : queue'[i] = queue[j]
           /\ \A i, j \in 1..Len(queue') : queue'[i] = queue'[j] => i = j
  <1> DEFINE q == queue
             r == Append(queue, e)
  <1>1. /\ q \in Seq(Objects) /\ r = Append(q, e) /\ queue' = r
        /\ \A j, k \in 1..Len(q) : q[j] = q[k] => j = k
        /\ \A j \in 1..Len(q) : q[j] # e
    BY QueueElements
  <1> HIDE DEF q, r
  <1>2. /\ r \in Seq(Objects)
        /\ \A i \in 1..Len(r) : r[i] = e \/ \E j \in 1..Len(q) : r[i] = q[j]
        /\ \A j, k \in 1..Len(r) : r[j] = r[k] => j = k
    BY <1>1, AppendFacts
  <1>3. queue = q
    BY DEF q
  <1> QED BY <1>1, <1>2, <1>3

LEMMA RegisterKeeps ==
    ASSUME IInv, NEW t \in Tasks, SubmitRegister(t)
    PROVE  IInv'
  <1>1. /\ RoundInv(t) /\ submit[t] = "no" /\ OtherTypes /\ record \in [Tasks -> Record]
        /\ 1 \in Rounds
    BY TypeParts, SchedulerAssumption DEF IInv, SubmitRegister, Rounds
  <1>2. /\ \A q \in Rounds : obj[<<t, q>>].status = "new"
        /\ record[t].status = "none" /\ record[t].run = 1
    BY <1>1 DEF RoundInv
  <1>3. /\ submit' = [submit EXCEPT ![t] = "put"] /\ worker' = TRUE
        /\ tasks' = [tasks EXCEPT ![t] = 1]
        /\ obj' = [obj EXCEPT ![<<t, 1>>] = Fresh("queued")]
        /\ UNCHANGED <<pc, child, watch, queue, limit, closed>>
    BY DEF SubmitRegister
  <1>4. /\ record' \in [Tasks -> Record] /\ record'[t].run = 1
        /\ record'[t].status = (IF t \in Owned THEN "queued" ELSE "none")
        /\ \A s \in Tasks : s # t => record'[s] = record[s]
    <2>1. CASE t \in Owned
      <3> DEFINE r == [NoRecord EXCEPT !.status = "queued"]
      <3>1. r \in Record /\ r.run = 1 /\ r.status = "queued"
        BY <1>1 DEF NoRecord, Record, RecordStatus, Status
      <3>2. record' = [record EXCEPT ![t] = r]
        BY <2>1 DEF SubmitRegister
      <3> HIDE DEF r
      <3> QED BY <1>1, <2>1, <3>1, <3>2
    <2>2. CASE t \notin Owned
      BY <1>1, <1>2, <2>2 DEF SubmitRegister
    <2> QED BY <2>1, <2>2
  <1>5. Birth(t, 1)
    <2>1. \A q \in Rounds : ~Held(obj[<<t, q>>]) /\ obj[<<t, q>>].status # "queued"
      BY <1>2 DEF Held, StillRunning
    <2>2. \A s \in Tasks : submit'[s] = submit[s] \/ (s = t /\ submit[t] = "no")
      BY <1>1, <1>3 DEF OtherTypes
    <2> QED BY <1>1, <1>2, <1>3, <1>4, <2>1, <2>2 DEF Birth
  <1>6. /\ tasks' \in [Tasks -> 0..MaxRounds] /\ ObjectTypes'
        /\ \A o \in Objects : ObjectInv(o)'
        /\ LimitInv'
        /\ Waits(<<t, 1>>)'
        /\ \A o \in Objects : Waits(o) /\ (o[1] = t => obj[o].status # "queued") => Waits(o)'
    BY <1>1, <1>5, BirthObjects
  <1>7. TypeOK'
    BY <1>1, <1>3, <1>4, <1>6, TypeParts DEF OtherTypes
  <1>8. \A i \in 1..Len(queue) : queue[i][1] # t
    <2> TAKE i \in 1..Len(queue)
    <2>1. PICK p \in Objects : p = queue[i] /\ Waits(p)
      BY QueueElements
    <2>2. p[1] # t
      BY <1>2, <2>1, ObjectPair DEF Waits
    <2> QED BY <2>1, <2>2
  <1>9. QueueInv'
    <2>1. ASSUME NEW i \in 1..Len(queue)
          PROVE  Waits(queue[i])'
      <3>1. PICK p \in Objects : p = queue[i] /\ Waits(p)
        BY QueueElements
      <3>2. Waits(p)'
        BY <1>6, <1>8, <3>1
      <3> QED BY <1>3, <3>1, <3>2 DEF Waits, Current
    <2> QED BY <1>3, <2>1 DEF IInv, QueueInv
  <1>10. tasks'[t] = 1 /\ submit'[t] = "put" /\ obj'[<<t, 1>>] = Fresh("queued")
         /\ \A q \in Rounds : q # 1 => obj'[<<t, q>>] = obj[<<t, q>>]
    BY <1>1, <1>3, TypeParts DEF IInv, ObjectTypes, OtherTypes, Objects
  <1>11. Fresh("queued").status = "queued"
    BY FreshFacts
  <1>12. PutInv(t)'
    <2>1. \A i \in 1..Len(queue') : queue'[i] # <<t, 1>>
      BY <1>3, <1>8
    <2>2. record'[t].status \notin BudgetStops
      BY <1>4 DEF BudgetStops
    <2> QED BY <1>4, <1>6, <1>10, <2>1, <2>2 DEF PutInv
  <1>13. RoundInv(t)'
    <2>1. \A q \in Rounds : q > 1 => obj'[<<t, q>>].status = "new"
      BY <1>2, <1>10 DEF Rounds
    <2> QED BY <1>4, <1>10, <1>11, <2>1 DEF RoundInv
  <1>14. RowInv(t)'
    BY <1>4, <1>10, <1>11 DEF RowInv, Over, Final
  <1>15. ASSUME NEW s \in Tasks, s # t
         PROVE  PutInv(s)' /\ RoundInv(s)' /\ RowInv(s)'
    <2>1. \A i \in 1..Len(queue') : \E j \in 1..Len(queue) : queue'[i] = queue[j]
      BY <1>3
    <2> QED BY <1>1, <1>5, <1>15, <2>1, BirthTasks
  <1> QED BY <1>6, <1>7, <1>9, <1>12, <1>13, <1>14, <1>15 DEF IInv

LEMMA ResumeKeeps ==
    ASSUME IInv, NEW t \in Tasks, Resume(t)
    PROVE  IInv'
  <1>0. record[t] \in Record /\ record[t].run < MaxRounds /\ record[t].run \in Rounds
    BY TypeParts DEF Resume, IInv, Record
  <1>r. PICK r \in Rounds : r = record[t].run + 1
    BY <1>0, SchedulerAssumption DEF Rounds
  <1> DEFINE n == <<t, r>>
             o == <<t, tasks[t]>>
             y == [status |-> "queued", live |-> TRUE, run |-> r, resumable |-> FALSE,
                   handled |-> FALSE]
  <1>1. /\ PutInv(t) /\ RoundInv(t) /\ OtherTypes /\ record \in [Tasks -> Record]
        /\ tasks \in [Tasks -> 0..MaxRounds]
    BY TypeParts DEF IInv
  <1>2. /\ tasks[t] # 0 => obj[o].status \in BudgetStops /\ ~obj[o].alive
        /\ record[t].status \in BudgetStops /\ record[t].run < MaxRounds /\ t \in Owned
        /\ tasks' = [tasks EXCEPT ![t] = r]
        /\ obj' = [obj EXCEPT ![n] = Fresh("queued")]
        /\ record' = [record EXCEPT ![t] = y]
        /\ queue' = Append(queue, n) /\ worker' = TRUE
        /\ UNCHANGED <<pc, child, watch, submit, limit, closed>>
    BY <1>r DEF Resume
  <1>3. r \in Rounds /\ r > 1 /\ record[t].run \in Rounds
    BY <1>0, <1>r, SchedulerAssumption DEF Rounds
  <1>4. submit[t] \notin {"no", "put"} /\ \A q \in Rounds : q > record[t].run =>
            obj[<<t, q>>].status = "new"
    BY <1>1, <1>2 DEF PutInv, RoundInv, BudgetStops
  <1>5. obj[n].status = "new"
    BY <1>3, <1>4, <1>r, SchedulerAssumption DEF Rounds
  <1>6. ASSUME NEW q \in Rounds
        PROVE  /\ ~Held(obj[<<t, q>>])
               /\ obj[<<t, q>>].status = "queued" => submit[t] = "over"
    <2>1. <<t, q>> \in Objects /\ ObjectInv(<<t, q>>)
      BY DEF IInv, Objects
    <2>2. CASE tasks[t] = q
      BY <1>2, <2>2, SchedulerAssumption DEF Held, StillRunning, BudgetStops, Rounds
    <2>3. CASE tasks[t] # q
      BY <2>1, <2>3 DEF ObjectInv, Current
    <2> QED BY <2>2, <2>3
  <1>7. y \in Record
    BY <1>3 DEF Record, RecordStatus, Status
  <1>8. record' \in [Tasks -> Record] /\ record'[t] = y
        /\ \A s \in Tasks : s # t => record'[s] = record[s]
    BY <1>1, <1>2, <1>7
  <1>9. Birth(t, r)
    <2>1. /\ tasks' = [tasks EXCEPT ![t] = r]
          /\ obj' = [obj EXCEPT ![<<t, r>>] = Fresh("queued")]
          /\ UNCHANGED <<pc, child, watch>> /\ obj[<<t, r>>].status = "new"
      BY <1>2, <1>5
    <2>2. /\ \A s \in Tasks : submit'[s] = submit[s] \/ (s = t /\ submit[t] = "no")
          /\ \A s \in Tasks : s # t => record'[s] = record[s]
      BY <1>2, <1>8
    <2>3. \A q \in Rounds : /\ ~Held(obj[<<t, q>>])
                            /\ obj[<<t, q>>].status = "queued" => submit[t] = "over"
      BY <1>6
    <2> QED BY <2>1, <2>2, <2>3 DEF Birth
  <1>10. n \in Objects
    BY <1>3 DEF Objects
  <1>11. /\ y.status = "queued" /\ y.live = TRUE /\ y.run = r /\ y.resumable = FALSE
    OBVIOUS
  <1>12. tasks'[t] = r /\ submit'[t] = submit[t] /\ obj'[n] = Fresh("queued")
         /\ \A q \in Rounds : q # r => obj'[<<t, q>>] = obj[<<t, q>>]
    BY <1>1, <1>2, <1>10, TypeParts DEF IInv, ObjectTypes, Objects
  <1> HIDE DEF y
  <1>13. /\ tasks' \in [Tasks -> 0..MaxRounds] /\ ObjectTypes'
         /\ \A p \in Objects : ObjectInv(p)'
         /\ LimitInv'
         /\ Waits(n)'
         /\ \A p \in Objects : Waits(p) /\ (p[1] = t => obj[p].status # "queued") => Waits(p)'
    BY <1>3, <1>9, BirthObjects
  <1>14. ASSUME NEW i \in 1..Len(queue)
         PROVE  queue[i] # n /\ \E p \in Objects : p = queue[i] /\ Waits(p)'
    <2>1. PICK p \in Objects : p = queue[i] /\ Waits(p)
      BY QueueElements
    <2>2. p # n
      BY <1>5, <2>1 DEF Waits
    <2>3. p[1] = t => obj[p].status # "queued"
      BY <1>2, <2>1, ObjectPair DEF Waits, Current, BudgetStops
    <2> QED BY <1>13, <2>1, <2>2, <2>3
  <1>15. /\ queue' \in Seq(Objects)
         /\ \A i \in 1..Len(queue') : queue'[i] = n \/ \E j \in 1..Len(queue) : queue'[i] = queue[j]
         /\ \A i, j \in 1..Len(queue') : queue'[i] = queue'[j] => i = j
    <2>1. queue' = Append(queue, n)
      BY <1>2
    <2>2. \A i \in 1..Len(queue) : queue[i] # n
      BY <1>14
    <2> HIDE DEF n
    <2> QED BY <1>10, <2>1, <2>2, QueueAppended
  <1>16. TypeOK'
    BY <1>1, <1>2, <1>8, <1>13, <1>15, TypeParts DEF OtherTypes
  <1>17. QueueInv'
    <2>1. ASSUME NEW i \in 1..Len(queue')
          PROVE  Waits(queue[i])'
      <3>1. PICK p \in Objects : p = queue'[i] /\ Waits(p)'
        <4>1. CASE queue'[i] = n
          BY <1>10, <1>13, <4>1
        <4>2. CASE queue'[i] # n
          BY <1>14, <1>15, <4>2
        <4> QED BY <4>1, <4>2
      <3> QED BY <3>1 DEF Waits, Current
    <2> QED BY <1>15, <2>1 DEF QueueInv
  <1>18. Fresh("queued").status = "queued"
         /\ Fresh("queued").alive = FALSE /\ Fresh("queued").asked = FALSE
         /\ Fresh("queued").resumable = FALSE
    BY DEF Fresh
  <1>19. PutInv(t)'
    BY <1>4, <1>12 DEF PutInv
  <1>20. RoundInv(t)'
    <2>1. \A q \in Rounds : q > r => q # r /\ q > record[t].run
      BY <1>3, <1>r DEF Rounds
    <2> QED BY <1>2, <1>4, <1>8, <1>11, <1>12, <1>18, <2>1 DEF RoundInv
  <1>21. RowInv(t)'
    <2>1. ~Over(record'[t])
      BY <1>8, <1>11 DEF Over
    <2>2. Shows(record'[t], obj'[n])
      BY <1>8, <1>11, <1>12, <1>18 DEF Shows
    <2> QED BY <1>12, <2>1, <2>2 DEF RowInv
  <1>22. ASSUME NEW s \in Tasks, s # t
         PROVE  PutInv(s)' /\ RoundInv(s)' /\ RowInv(s)'
    <2>1. n[1] = t
      OBVIOUS
    <2>2. \A i \in 1..Len(queue') : (queue'[i] \in Objects /\ queue'[i][1] = t)
                  \/ \E j \in 1..Len(queue) : queue'[i] = queue[j]
      BY <1>10, <1>15, <2>1
    <2> QED BY <1>3, <1>9, <1>22, <2>2, BirthTasks
  <1> QED BY <1>13, <1>16, <1>17, <1>19, <1>20, <1>21, <1>22 DEF IInv
-----------------------------------------------------------------------------
(* The other steps of submit().                                           *)
LEMMA PutKeeps ==
    ASSUME IInv, NEW t \in Tasks, SubmitPut(t)
    PROVE  IInv'
  <1> DEFINE n == <<t, 1>>
  <1>1. /\ PutInv(t) /\ submit[t] = "put" /\ OtherTypes /\ n \in Objects
        /\ submit' = [submit EXCEPT ![t] = "return"] /\ queue' = Append(queue, n)
    BY TypeParts, SchedulerAssumption DEF IInv, SubmitPut, Objects, Rounds
  <1>2. UNCHANGED <<tasks, obj, pc, child, watch, record, limit, closed, worker>>
    BY DEF SubmitPut, taskVars, ctlVars
  <1>3. submit' \in [Tasks -> {"no", "put", "return", "over"}] /\ submit'[t] = "return"
        /\ \A s \in Tasks : s # t => submit'[s] = submit[s]
    BY <1>1 DEF OtherTypes
  <1>4. Waits(n) /\ \A i \in 1..Len(queue) : queue[i] # n
    BY <1>1 DEF PutInv
  <1> HIDE DEF n
  <1>5. /\ queue' \in Seq(Objects)
        /\ \A i \in 1..Len(queue') : queue'[i] = n \/ \E j \in 1..Len(queue) : queue'[i] = queue[j]
        /\ \A i, j \in 1..Len(queue') : queue'[i] = queue'[j] => i = j
    BY <1>1, <1>4, QueueAppended
  <1>6. TypeOK'
    BY <1>1, <1>2, <1>3, <1>5, TypeParts DEF IInv, OtherTypes, ObjectTypes
  <1>7. QueueInv'
    <2>1. ASSUME NEW i \in 1..Len(queue')
          PROVE  Waits(queue[i])'
      <3>1. PICK p \in Objects : p = queue'[i] /\ Waits(p)
        BY <1>1, <1>4, <1>5, QueueElements
      <3> QED BY <1>2, <3>1 DEF Waits, Current
    <2> QED BY <1>5, <2>1 DEF QueueInv
  <1>8. ASSUME NEW o \in Objects
        PROVE  ObjectInv(o)'
    <2>1. ObjectInv(o) /\ o[1] \in Tasks
      BY ObjectPair DEF IInv
    <2>2. submit[o[1]] = "over" => submit'[o[1]] = "over"
      BY <1>1, <1>3, <2>1
    <2> QED BY <1>2, <2>1, <2>2, ObjectParts DEF Current
  <1>9. LimitInv'
    BY <1>2, LimitKept DEF IInv, Live, Occupies, Current
  <1>10. ASSUME NEW s \in Tasks
         PROVE  PutInv(s)' /\ RoundInv(s)' /\ RowInv(s)'
    <2>1. PutInv(s) /\ RoundInv(s) /\ RowInv(s)
      BY DEF IInv
    <2>2. (submit'[s] = "over" <=> submit[s] = "over") /\ (submit'[s] = "no" <=> submit[s] = "no")
      BY <1>1, <1>3
    <2>3. RoundInv(s)' /\ RowInv(s)'
      BY <1>2, <2>1, <2>2 DEF RoundInv, RowInv, Owed
    <2>4. PutInv(s)'
      <3>1. SUFFICES ASSUME submit'[s] = "put"
                     PROVE  PutInv(s)'
        BY DEF PutInv
      <3>2. s # t /\ submit[s] = "put"
        BY <1>3, <3>1
      <3>3. /\ Waits(<<s, 1>>) /\ tasks[s] \in {0, 1} /\ record[s].run = 1
            /\ record[s].status \notin BudgetStops
            /\ \A j \in 1..Len(queue) : queue[j] # <<s, 1>>
        BY <2>1, <3>2 DEF PutInv
      <3>4. \A i \in 1..Len(queue') : queue'[i] # <<s, 1>>
        BY <1>5, <3>2, <3>3 DEF n
      <3>5. Waits(<<s, 1>>)'
        BY <1>2, <3>3 DEF Waits, Current
      <3> QED BY <1>2, <3>3, <3>4, <3>5 DEF PutInv
    <2> QED BY <2>3, <2>4
  <1> QED BY <1>6, <1>7, <1>8, <1>9, <1>10 DEF IInv

LEMMA FullKeeps ==
    ASSUME IInv, NEW t \in Tasks, SubmitFull(t)
    PROVE  IInv'
  <1> DEFINE n == <<t, 1>>
  <1>1. /\ PutInv(t) /\ RoundInv(t) /\ submit[t] = "put" /\ OtherTypes
        /\ tasks \in [Tasks -> 0..MaxRounds] /\ record \in [Tasks -> Record]
        /\ submit' = [submit EXCEPT ![t] = "over"] /\ tasks' = [tasks EXCEPT ![t] = 0]
    BY TypeParts DEF IInv, SubmitFull
  <1>2. UNCHANGED <<obj, pc, child, watch, queue, limit, closed, worker>>
    BY DEF SubmitFull, taskVars, ctlVars
  <1>3. /\ submit' \in [Tasks -> {"no", "put", "return", "over"}] /\ submit'[t] = "over"
        /\ \A s \in Tasks : s # t => submit'[s] = submit[s]
        /\ tasks' \in [Tasks -> 0..MaxRounds] /\ tasks'[t] = 0
        /\ \A s \in Tasks : s # t => tasks'[s] = tasks[s]
    BY <1>1, SchedulerAssumption DEF OtherTypes
  <1>4. /\ Waits(n) /\ tasks[t] \in {0, 1} /\ \A i \in 1..Len(queue) : queue[i] # n
        /\ record[t].run = 1
    BY <1>1 DEF PutInv
  <1>5. /\ record' \in [Tasks -> Record] /\ record'[t].run = 1
        /\ t \in Owned => record'[t].status # "none"
        /\ t \notin Owned => record'[t] = record[t]
        /\ \A s \in Tasks : s # t => record'[s] = record[s]
    <2> DEFINE y == [record[t] EXCEPT !.status = "failed", !.live = FALSE]
    <2>1. y \in Record /\ y.run = 1 /\ y.status = "failed"
      <3>1. record[t] \in Record
        BY <1>1
      <3> QED BY <1>4, <3>1 DEF Record, RecordStatus, Status
    <2>2. CASE t \in Owned
      <3>1. record' = [record EXCEPT ![t] = y]
        BY <2>2 DEF SubmitFull
      <3> HIDE DEF y
      <3> QED BY <1>1, <2>1, <2>2, <3>1
    <2>3. CASE t \notin Owned
      BY <1>1, <1>4, <2>3 DEF SubmitFull
    <2> QED BY <2>2, <2>3
  <1>6. TypeOK'
    BY <1>1, <1>2, <1>3, <1>5, TypeParts DEF IInv, OtherTypes, ObjectTypes
  <1>7. \A o \in Objects : o[1] = t /\ Current(o) => o = n
    BY <1>4, ObjectPair DEF Current
  <1>8. \A o \in Objects : o[1] # t => (Current(o)' <=> Current(o))
    BY <1>3, ObjectPair DEF Current
  <1>9. ~Held(obj[n])
    BY <1>4 DEF Waits, Held, StillRunning
  <1>10. ASSUME NEW o \in Objects
         PROVE  ObjectInv(o)'
    <2>1. ObjectInv(o) /\ o[1] \in Tasks
      BY ObjectPair DEF IInv
    <2>2. CASE o[1] = t
      <3>1. ~Held(obj[o])
        BY <1>7, <1>9, <2>1, <2>2 DEF ObjectInv
      <3> QED BY <1>2, <1>3, <2>1, <2>2, <3>1, ObjectParts
    <2>3. CASE o[1] # t
      BY <1>2, <1>3, <1>8, <2>1, <2>3, ObjectParts
    <2> QED BY <2>2, <2>3
  <1>11. \A o \in Objects : Waits(o) /\ o # n => Waits(o)'
    BY <1>2, <1>7, <1>8 DEF Waits
  <1>12. QueueInv'
    <2>1. ASSUME NEW i \in 1..Len(queue)
          PROVE  Waits(queue[i])'
      <3>1. PICK p \in Objects : p = queue[i] /\ Waits(p)
        BY QueueElements
      <3>2. Waits(p)'
        BY <1>4, <1>11, <3>1
      <3> QED BY <1>2, <3>1, <3>2 DEF Waits, Current
    <2> QED BY <1>2, <2>1 DEF IInv, QueueInv
  <1>13. LimitInv'
    <2>1. ASSUME NEW p \in Live'
          PROVE  p \in Live
      <3>1. p \in Objects /\ Current(p)' /\ Held(obj[p])
        BY <1>2, <2>1 DEF Live, Occupies, Held, StillRunning, Current
      <3>2. p[1] # t
        BY <1>3, <3>1, ObjectPair DEF Current
      <3> QED BY <1>8, <3>1, <3>2, OccupiesHeld DEF Live
    <2> QED BY <2>1, LimitKept DEF IInv
  <1>14. PutInv(t)' /\ RowInv(t)'
    BY <1>3 DEF PutInv, RowInv
  <1>15. RoundInv(t)'
    BY <1>1, <1>2, <1>3, <1>4, <1>5 DEF RoundInv
  <1>16. ASSUME NEW s \in Tasks, s # t
         PROVE  PutInv(s)' /\ RoundInv(s)' /\ RowInv(s)'
    <2>1. /\ PutInv(s) /\ RoundInv(s) /\ RowInv(s)
          /\ submit'[s] = submit[s] /\ tasks'[s] = tasks[s] /\ record'[s] = record[s]
      BY <1>3, <1>5, <1>16 DEF IInv
    <2>2. <<s, 1>> \in Objects /\ <<s, 1>> # n
      BY <1>16, SchedulerAssumption DEF Objects, Rounds
    <2>3. RoundInv(s)'
      BY <1>2, <2>1 DEF RoundInv
    <2>4. RowInv(s)'
      BY <1>2, <2>1 DEF RowInv, Owed
    <2>5. PutInv(s)'
      BY <1>2, <1>11, <2>1, <2>2 DEF PutInv
    <2> QED BY <2>3, <2>4, <2>5
  <1> QED BY <1>6, <1>10, <1>12, <1>13, <1>14, <1>15, <1>16 DEF IInv

LEMMA ReturnKeeps ==
    ASSUME IInv, NEW t \in Tasks, SubmitReturn(t)
    PROVE  IInv'
  <1> DEFINE n == <<t, 1>>
             x == obj[n]
  <1>1. /\ RoundInv(t) /\ RowInv(t) /\ submit[t] = "return" /\ OtherTypes /\ ObjectTypes
        /\ tasks \in [Tasks -> 0..MaxRounds] /\ record \in [Tasks -> Record]
        /\ submit' = [submit EXCEPT ![t] = "over"]
        /\ record' = IF x.status = "queued" THEN Emitted({n}, obj) ELSE record
    BY TypeParts DEF IInv, SubmitReturn
  <1>2. UNCHANGED <<tasks, obj, pc, child, watch, queue, limit, closed, worker>>
    BY DEF SubmitReturn, taskVars, ctlVars
  <1>3. /\ submit' \in [Tasks -> {"no", "put", "return", "over"}] /\ submit'[t] = "over"
        /\ \A s \in Tasks : s # t => submit'[s] = submit[s]
    BY <1>1 DEF OtherTypes
  <1>4. n \in Objects /\ n[1] = t /\ n[2] = 1 /\ 1 \in Rounds /\ ObjectInv(n)
    BY SchedulerAssumption DEF Objects, Rounds, IInv
  <1>5. x.status = "queued" => tasks[t] = 1
    BY <1>1, <1>4 DEF ObjectInv, Current
  <1>6. MayWrite(n) <=> t \in Owned /\ tasks[t] \in {0, 1} /\ record[t].run = 1
    BY <1>4 DEF MayWrite
  <1> DEFINE y == Projected(record[t], x)
             writes == x.status = "queued" /\ t \in Owned
  <1>7. writes => /\ y \in Record /\ y.run = record[t].run /\ Shows(y, x)
                  /\ y.status # "none" /\ ~Over(y)
    <2>1. x \in Object /\ record[t] \in Record
      BY <1>1, <1>4 DEF ObjectTypes
    <2> QED BY <2>1, ProjectionFacts
  <1>8. /\ record'[t] = IF writes THEN y ELSE record[t]
        /\ \A s \in Tasks : s # t => record'[s] = record[s]
        /\ record' = [s \in Tasks |-> record'[s]]
    <2>1. CASE x.status = "queued"
      <3>1. record' = Emitted({n}, obj)
        BY <1>1, <2>1
      <3> HIDE DEF n
      <3>2. \A s \in Tasks : record'[s] = IF n[1] = s /\ MayWrite(n)
                                          THEN Projected(record[s], obj[n]) ELSE record[s]
        BY <1>4, <3>1, EmissionOf
      <3>3. record' = [s \in Tasks |-> record'[s]]
        BY <3>1, EmittedFunction
      <3>4. t \in Owned => MayWrite(n)
        BY <1>1, <1>4, <1>5, <2>1 DEF RoundInv, MayWrite
      <3>5. t \notin Owned => ~MayWrite(n)
        BY <1>4 DEF MayWrite
      <3> QED BY <1>4, <2>1, <3>2, <3>3, <3>4, <3>5
    <2>2. CASE x.status # "queued"
      BY <1>1, <2>2
    <2> QED BY <2>1, <2>2
  <1> HIDE DEF y
  <1>9. record' \in [Tasks -> Record]
    <2>1. \A s \in Tasks : record'[s] \in Record
      BY <1>1, <1>7, <1>8
    <2> QED BY <1>8, <2>1
  <1>10. TypeOK'
    BY <1>1, <1>2, <1>3, <1>9, TypeParts DEF OtherTypes, ObjectTypes
  <1>11. ASSUME NEW o \in Objects
         PROVE  ObjectInv(o)'
    <2>1. ObjectInv(o) /\ o[1] \in Tasks
      BY ObjectPair DEF IInv
    <2>2. submit[o[1]] = "over" => submit'[o[1]] = "over"
      BY <1>3, <2>1
    <2> QED BY <1>2, <2>1, <2>2, ObjectParts DEF Current
  <1>12. QueueInv'
    BY <1>2 DEF IInv, QueueInv, Waits, Current
  <1>13. LimitInv'
    BY <1>2, LimitKept DEF IInv, Live, Occupies, Current
  <1>14. PutInv(t)'
    BY <1>3 DEF PutInv
  <1>15. RoundInv(t)'
    BY <1>1, <1>2, <1>3, <1>7, <1>8 DEF RoundInv
  <1>16. RowInv(t)'
    <2>1. SUFFICES ASSUME t \in Owned, tasks[t] # 0
                   PROVE  RowInv(t)'
      BY <1>2 DEF RowInv
    <2>2. CASE x.status = "queued"
      <3>1. record'[t] = y /\ ~Over(y) /\ Shows(y, x) /\ tasks[t] = 1
        BY <1>5, <1>7, <1>8, <2>1, <2>2
      <3> QED BY <1>2, <3>1 DEF RowInv
    <2>3. CASE x.status # "queued"
      <3>1. record'[t] = record[t]
        BY <1>8, <2>3
      <3>2. tasks[t] = 1 \/ tasks[t] > 1
        BY <1>1, <2>1, SchedulerAssumption
      <3>3. tasks[t] = 1 => obj[<<t, tasks[t]>>].status # "queued"
        BY <2>3
      <3> HIDE DEF n, x
      <3> QED BY <1>1, <1>2, <2>1, <3>1, <3>2, <3>3 DEF RowInv, Owed
    <2> QED BY <2>2, <2>3
  <1>17. ASSUME NEW s \in Tasks, s # t
         PROVE  PutInv(s)' /\ RoundInv(s)' /\ RowInv(s)'
    <2>1. /\ PutInv(s) /\ RoundInv(s) /\ RowInv(s)
          /\ submit'[s] = submit[s] /\ record'[s] = record[s]
      BY <1>3, <1>8, <1>17 DEF IInv
    <2>2. RoundInv(s)'
      BY <1>2, <2>1 DEF RoundInv
    <2>3. RowInv(s)'
      BY <1>2, <2>1 DEF RowInv, Owed
    <2>4. PutInv(s)'
      BY <1>2, <2>1 DEF PutInv, Waits, Current
    <2> QED BY <2>2, <2>3, <2>4
  <1> QED BY <1>10, <1>11, <1>12, <1>13, <1>14, <1>15, <1>16, <1>17 DEF IInv
-----------------------------------------------------------------------------
(* The specification.                                                     *)
LEMMA InitInv ==
    ASSUME Init
    PROVE  IInv
  <1>1. /\ tasks = [t \in Tasks |-> 0] /\ obj = [o \in Objects |-> Fresh("new")]
        /\ pc = [o \in Objects |-> "none"] /\ child = [o \in Objects |-> "none"]
        /\ watch = [o \in Objects |-> "none"] /\ submit = [t \in Tasks |-> "no"]
        /\ queue = << >> /\ record = [t \in Tasks |-> NoRecord]
        /\ limit \in 1..MaxLimit /\ closed = FALSE /\ worker = FALSE
    BY DEF Init
  <1>2. LET x == Fresh("new") IN
        x \in Object /\ x.status = "new" /\ ~x.alive /\ ~Held(x)
    BY DEF Fresh, Object, Status, Held, StillRunning
  <1>3. NoRecord \in Record /\ NoRecord.status = "none" /\ NoRecord.run = 1
    BY SchedulerAssumption DEF NoRecord, Record, RecordStatus, Rounds
  <1>4. TypeOK
    <2>1. 0 \in 0..MaxRounds /\ << >> \in Seq(Objects)
      BY SchedulerAssumption
    <2> QED BY <1>1, <1>2, <1>3, <2>1 DEF TypeOK
  <1>5. ASSUME NEW o \in Objects
        PROVE  ObjectInv(o)
    BY <1>1, <1>2 DEF ObjectInv, StillRunning
  <1>6. QueueInv
    BY <1>1 DEF QueueInv
  <1>7. ASSUME NEW t \in Tasks
        PROVE  PutInv(t) /\ RoundInv(t) /\ RowInv(t)
    <2>1. \A r \in Rounds : obj[<<t, r>>] = Fresh("new")
      BY <1>1 DEF Objects
    <2>2. submit[t] = "no" /\ tasks[t] = 0 /\ record[t] = NoRecord
      BY <1>1
    <2> QED BY <1>2, <1>3, <2>1, <2>2 DEF PutInv, RoundInv, RowInv
  <1>8. LimitInv
    <2>1. Live = {}
      BY <1>1, <1>2, ObjectPair DEF Live, Occupies, Current
    <2> QED BY <2>1, FS_EmptySet, SchedulerAssumption DEF LimitInv
  <1> QED BY <1>4, <1>5, <1>6, <1>7, <1>8 DEF IInv

LEMMA ThreadsKeep ==
    ASSUME IInv, Threads
    PROVE  IInv'
  <1>1. ObjectTypes /\ OtherTypes /\ tasks \in [Tasks -> 0..MaxRounds]
    BY TypeParts DEF IInv
  <1>2. CASE Dispatcher
    <2>1. CASE WorkerExit
      BY <1>1, <2>1, ControlKeeps DEF WorkerExit, OtherTypes
    <2> QED BY <1>2, <2>1, DropKeeps, StartKeeps DEF Dispatcher
  <1>3. CASE \E t \in Tasks : SubmitStep(t)
    BY <1>3, PutKeeps, FullKeeps, ReturnKeeps DEF SubmitStep
  <1>4. CASE \E o \in Objects : Executor(o) \/ ChildEnds(o) \/ Callback(o)
    <2>1. PICK o \in Objects : Executor(o) \/ ChildEnds(o) \/ Callback(o)
      BY <1>4
    <2>2. LocalInv(obj[o], pc[o], child[o], watch[o])
      BY ObjectParts DEF IInv
    <2>3. ThreadStep(o)
      BY <1>1, <2>1, <2>2, ExecutorStep, ChildStep, CallbackStep
    <2> QED BY <2>3, ThreadKeeps
  <1> QED BY <1>2, <1>3, <1>4 DEF Threads

LEMMA NextKeeps ==
    ASSUME IInv, [Next]_vars
    PROVE  IInv'
  <1>1. ObjectTypes /\ OtherTypes
    BY TypeParts DEF IInv
  <1>2. CASE \E t \in Tasks : SubmitRegister(t) \/ Cancel(t) \/ Resume(t)
    BY <1>2, RegisterKeeps, CancelMarks, MarkKeeps, ResumeKeeps
  <1>3. CASE \E b \in BOOLEAN : Close(b)
    BY <1>3, CloseMarks, MarkKeeps
  <1>4. CASE ConfigureConcurrency
    <2>1. /\ limit' \in 1..MaxLimit
          /\ UNCHANGED <<tasks, taskVars, submit, queue, turns, record, closed, worker>>
      BY <1>4 DEF ConfigureConcurrency
    <2> QED BY <1>1, <2>1, ControlKeeps DEF OtherTypes
  <1>5. CASE UNCHANGED vars
    BY <1>1, <1>5, ControlKeeps DEF vars, ctlVars, OtherTypes
  <1> QED BY <1>2, <1>3, <1>4, <1>5, ThreadsKeep DEF Next

LEMMA SchedulerInvariant == Spec => []IInv
  <1>1. Init => IInv
    BY InitInv
  <1>2. IInv /\ [Next]_vars => IInv'
    BY NextKeeps
  <1> QED BY <1>1, <1>2, PTL DEF Spec

\* Every variable of the scheduler keeps its type: in particular a row never
\* shows "new", the state of an object that does not exist yet.
THEOREM SchedulerTypeCorrect == Spec => []TypeOK
  <1>1. IInv => TypeOK
    BY DEF IInv
  <1> QED BY <1>1, SchedulerInvariant, PTL

LEMMA ChildIsHeld ==
    ASSUME IInv, NEW o \in Objects, child[o] = "running" \/ watch[o] \in {"armed", "handler"}
    PROVE  Held(obj[o]) /\ Current(o)
  BY DEF IInv, ObjectInv, Held, StillRunning

\* A child that executes, or whose end is being reconciled, belongs to the
\* object its id names (_tasks in scheduler.py), whatever was pruned, resumed
\* or withdrawn meanwhile.
THEOREM ChildrenAreOwned == Spec => []ChildIsOwned
  <1>1. IInv => ChildIsOwned
    BY ChildIsHeld DEF ChildIsOwned
  <1> QED BY <1>1, SchedulerInvariant, PTL

LEMMA OverIsQuiet ==
    ASSUME IInv, NEW o \in Objects, Over(record[o[1]])
    PROVE  /\ ~Held(obj[o]) /\ child[o] # "running" /\ watch[o] \notin {"armed", "handler"}
           /\ pc[o] \notin {"start", "enter", "run", "handler", "watch"}
  <1>1. o[1] \in Tasks /\ o[2] # 0 /\ o = <<o[1], o[2]>>
    BY ObjectPair
  <1>2. o[1] \in Owned
    BY <1>1 DEF IInv, RoundInv, Over, Final
  <1>3. Current(o) => ~Held(obj[o])
    BY <1>1, <1>2 DEF IInv, RowInv, Current
  <1>4. ~Held(obj[o])
    BY <1>3 DEF IInv, ObjectInv
  <1> QED BY <1>4, ChildIsHeld DEF IInv, ObjectInv, Held

\* The ledger's word that a task is over can be trusted: no child and no
\* callback of any round of it is still at work.
THEOREM RowsTellTheTruth == Spec => []RecordTruth
  <1>1. ASSUME IInv
        PROVE  RecordTruth
    <2>1. ASSUME NEW t \in Tasks, Over(record[t]), NEW r \in Rounds
          PROVE  child[<<t, r>>] # "running" /\ watch[<<t, r>>] \notin {"armed", "handler"}
      <3>1. <<t, r>> \in Objects /\ <<t, r>>[1] = t
        BY DEF Objects
      <3> QED BY <1>1, <2>1, <3>1, OverIsQuiet
    <2> QED BY <2>1 DEF RecordTruth
  <1> QED BY <1>1, SchedulerInvariant, PTL

LEMMA ShowsProjected ==
    ASSUME NEW r \in Record, NEW x \in Object, Shows(r, x)
    PROVE  r = Projected(r, x)
  BY DEF Shows, Projected, Record, Object

\* Once nobody owes an emission, the row of a task is what the scheduler's
\* last look at the present object wrote (_emit, scheduler_update): no older
\* round and no reordered writer has overwritten it.
THEOREM RowsAreCurrent == Spec => []RecordCurrent
  <1>1. ASSUME IInv
        PROVE  RecordCurrent
    <2>1. ASSUME NEW t \in Owned, tasks[t] # 0, ~Owed(<<t, tasks[t]>>),
                 submit[t] = "over" \/ obj[<<t, tasks[t]>>].status # "queued"
          PROVE  record[t] = Projected([record[t] EXCEPT !.run = tasks[t]], obj[<<t, tasks[t]>>])
      <3>1. /\ t \in Tasks /\ record[t] \in Record /\ tasks \in [Tasks -> 0..MaxRounds]
            /\ record[t].run = tasks[t] /\ Shows(record[t], obj[<<t, tasks[t]>>])
        BY <1>1, <2>1, SchedulerAssumption, TypeParts DEF IInv, RoundInv, RowInv
      <3>2. obj[<<t, tasks[t]>>] \in Object
        BY <1>1, <2>1, <3>1, PairObject, TypeParts DEF IInv, ObjectTypes
      <3>3. [record[t] EXCEPT !.run = tasks[t]] = record[t]
        BY <3>1 DEF Record
      <3> QED BY <3>1, <3>2, <3>3, ShowsProjected
    <2> QED BY <2>1 DEF RecordCurrent
  <1> QED BY <1>1, SchedulerInvariant, PTL

\* However often children outlive their deadline, at most max_requests (the
\* largest ever configured) of them execute, and one serial child at most:
\* each holds its task's slot until its thread has exited.
THEOREM ThreadsAreLimited == Spec => []ThreadsWithinLimit
  <1>1. ASSUME IInv
        PROVE  ThreadsWithinLimit
    <2> DEFINE executing == {o \in Objects : child[o] = "running"}
               serial == {o \in executing : o[1] \in Serial}
    <2>1. executing \subseteq Live
      BY <1>1, ChildIsHeld, OccupiesHeld DEF Live
    <2>2. IsFiniteSet(Live)
      BY ObjectsFinite, FS_Subset DEF Live
    <2>3. Cardinality(executing) <= Cardinality(Live) /\ Cardinality(Live) <= MaxLimit
          /\ Cardinality(executing) \in Nat /\ Cardinality(Live) \in Nat
      BY <1>1, <2>1, <2>2, FS_Subset, FS_CardinalityType DEF IInv, LimitInv
    <2>4. \A o, p \in serial : o = p
      BY <1>1, <2>1 DEF IInv, LimitInv
    <2> HIDE DEF serial
    <2>5. Cardinality(serial) <= 1
      <3>1. CASE serial = {}
        BY <3>1, FS_EmptySet
      <3>2. CASE serial # {}
        <4>1. PICK o : serial = {o}
          BY <2>4, <3>2
        <4>2. Cardinality({o}) = 1
          BY FS_Singleton
        <4> QED BY <4>1, <4>2
      <3> QED BY <3>1, <3>2
    <2> QED BY <2>3, <2>5, SchedulerAssumption DEF ThreadsWithinLimit, serial
  <1> QED BY <1>1, SchedulerInvariant, PTL
-----------------------------------------------------------------------------
(* The coordinator's inductive invariant.                                 *)
MainTypes ==
    /\ root \in {"none", "running", "waiting_children", "merging", "cancelling",
                 "completed", "failed", "cancelled"}
    /\ attempt \in 0..MaxAttempts
    /\ main \in {"idle", "request", "provider", "tools", "settle", "waiting",
                 "settled", "complete", "abort", "cancelling"}
    /\ started \in BOOLEAN
    /\ outcome \in {"none", "failed", "cancelled"}
    /\ toCancel \subseteq Owned
    /\ delivered \in [Owned -> 0..MaxRounds]
    /\ shown \in [Owned -> 0..MaxRounds]
    /\ call \in [Owned -> 0..MaxAttempts]

Ended == {"completed", "failed", "cancelled"}

\* A main task that has ended left no child behind, and its loop does not run.
MainInv ==
    /\ main # "idle" => root \notin Ended
    /\ root \in Ended => Pending = {}
    /\ root = "completed" => \A t \in Children : record[t].handled

\* Only a task whose runs keep a checkpoint is ever resumed.
CheckpointInv ==
    /\ \A o \in Objects : obj[o].resumable => o[1] \in Continuable
    /\ \A t \in Tasks : t \notin Continuable => ~record[t].resumable /\ record[t].run = 1

\* Results shown and handled are results of rounds that have begun.
ShownInv ==
    \A t \in Owned : /\ delivered[t] <= record[t].run /\ shown[t] <= record[t].run
                     /\ record[t].handled => shown[t] # 0

CInv == IInv /\ MainTypes /\ MainInv /\ CheckpointInv /\ ShownInv
\* What the scheduler's own steps, and cancel(), do to a row.
RowStep(t) ==
    /\ record'[t].run = record[t].run /\ record'[t].handled = record[t].handled
    /\ Over(record[t]) => Over(record'[t])
    /\ record'[t].status = "none" <=> record[t].status = "none"
    /\ t \notin Continuable => ~record'[t].resumable

ObjectsKeepCheckpoints == \A o \in Objects : obj'[o].resumable => o[1] \in Continuable

LEMMA SameRowStep ==
    ASSUME CheckpointInv, NEW t \in Tasks, record'[t] = record[t]
    PROVE  RowStep(t)
  BY DEF RowStep, CheckpointInv

\* An emission for an object that has ended writes that it is over.
LEMMA ProjectedStep ==
    ASSUME NEW t \in Tasks, NEW x \in Object, record[t] \in Record,
           record'[t] = Projected(record[t], x),
           record[t].status # "none", x.status # "new",
           x.resumable => t \in Continuable,
           Over(record[t]) => /\ x.status # "queued" /\ ~Held(x)
                              /\ x.alive => x.status \in {"timed_out_running", "cancelled"}
    PROVE  RowStep(t)
  <1> DEFINE y == Projected(record[t], x)
  <1>1. /\ y \in Record /\ y.run = record[t].run /\ y.handled = record[t].handled
        /\ Shows(y, x) /\ y.status # "none"
    BY ProjectionFacts
  <1>2. y = record'[t] /\ x.status \in Status /\ x.alive \in BOOLEAN
    BY DEF Object
  <1> HIDE DEF y
  <1>3. t \notin Continuable => ~y.resumable
    BY <1>1 DEF Shows
  <1>4. ASSUME Over(record[t])
        PROVE  Over(y)
    <2>1. ~x.alive /\ x.status \in Final
      BY <1>2, <1>4 DEF Held, StillRunning, Status, Final
    <2> QED BY <1>1, <2>1 DEF Shows, Over, Final
  <1> QED BY <1>1, <1>2, <1>3, <1>4 DEF RowStep

LEMMA ThreadRow ==
    ASSUME IInv, CheckpointInv, NEW o \in Objects, ThreadStep(o)
    PROVE  ObjectsKeepCheckpoints /\ \A t \in Tasks : RowStep(t)
  <1>1. ObjectsKeepCheckpoints
    BY DEF ObjectsKeepCheckpoints, CheckpointInv, ThreadStep, OthersRest
  <1>2. ASSUME NEW t \in Tasks
        PROVE  RowStep(t)
    <2>1. record[t] \in Record /\ RoundInv(t) /\ ObjectInv(o)
          /\ o[2] \in Rounds /\ o = <<o[1], o[2]>>
      BY TypeParts, ObjectPair DEF IInv
    <2>2. \/ record'[t] = record[t]
          \/ /\ o[1] = t /\ MayWrite(o)
             /\ record'[t] = Projected(record[t], obj'[o])
      BY ThreadWrites
    <2>3. CASE o[1] = t /\ MayWrite(o) /\ record'[t] = Projected(record[t], obj'[o])
      <3>1. /\ obj'[o] \in Object /\ obj'[o].status \notin {"new", "queued"}
            /\ obj'[o].alive => obj'[o].status \in {"timed_out_running", "cancelled"}
            /\ pc[o] # "none" /\ (Held(obj'[o]) => Held(obj[o]))
        BY DEF ThreadStep, ObjectTypes, LocalInv
      <3>2. obj[o].status # "new"
        BY <2>1, <3>1 DEF ObjectInv
      <3>3. record[t].status # "none"
        BY <2>1, <2>3, <3>2 DEF RoundInv, MayWrite
      <3>4. Over(record[t]) => ~Held(obj[o])
        BY <2>3, OverIsQuiet
      <3>5. obj'[o].resumable => t \in Continuable
        BY <1>1, <2>3 DEF ObjectsKeepCheckpoints
      <3> QED BY <2>1, <2>3, <3>1, <3>3, <3>4, <3>5, ProjectedStep
    <2> QED BY <2>2, <2>3, SameRowStep
  <1> QED BY <1>1, <1>2

LEMMA MarkRow ==
    ASSUME IInv, CheckpointInv, MarkStep
    PROVE  ObjectsKeepCheckpoints /\ \A t \in Tasks : RowStep(t)
  <1>1. ObjectsKeepCheckpoints
    BY DEF ObjectsKeepCheckpoints, CheckpointInv, MarkStep, Marked
  <1>2. ASSUME NEW t \in Tasks
        PROVE  RowStep(t)
    <2> DEFINE o == <<t, tasks[t]>>
    <2>1. /\ record[t] \in Record /\ RoundInv(t) /\ RowInv(t)
          /\ tasks \in [Tasks -> 0..MaxRounds]
      BY TypeParts DEF IInv
    <2>2. CASE record'[t] = record[t]
      BY <2>2, SameRowStep
    <2>3. CASE t \in Owned /\ tasks[t] # 0 /\ record'[t] = Projected(record[t], obj'[o])
      <3>1. o \in Objects /\ o[1] = t
        BY <2>1, <2>3, PairObject
      <3>2. Marked(o) /\ obj'[o] \in Object /\ ObjectInv(o) /\ obj[o].status # "new"
        BY <2>1, <2>3, <3>1 DEF MarkStep, IInv, RoundInv
      <3>3. record[t].status # "none"
        BY <2>1, <2>3 DEF RoundInv
      <3>4. Over(record[t]) => obj[o].status # "queued" /\ ~Held(obj[o])
        BY <2>1, <2>3 DEF RowInv
      <3>5. obj'[o].resumable => t \in Continuable
        BY <1>1, <3>1 DEF ObjectsKeepCheckpoints
      <3>6. /\ obj'[o].status # "new"
            /\ Over(record[t]) => /\ obj'[o].status # "queued" /\ ~Held(obj'[o])
                                  /\ obj'[o].alive => obj'[o].status \in {"timed_out_running", "cancelled"}
        BY <3>2, <3>4 DEF Marked, ObjectInv, Held, StillRunning
      <3> HIDE DEF o
      <3> QED BY <2>1, <2>3, <3>2, <3>3, <3>5, <3>6, ProjectedStep
    <2> QED BY <2>2, <2>3 DEF MarkStep, RowFollows
  <1> QED BY <1>1, <1>2

LEMMA SubmitRow ==
    ASSUME IInv, CheckpointInv, NEW s \in Tasks, SubmitStep(s)
    PROVE  ObjectsKeepCheckpoints /\ \A t \in Tasks : RowStep(t)
  <1>1. obj' = obj
    BY DEF SubmitStep, SubmitPut, SubmitFull, SubmitReturn, taskVars
  <1>2. ObjectsKeepCheckpoints
    BY <1>1 DEF ObjectsKeepCheckpoints, CheckpointInv
  <1>3. record \in [Tasks -> Record] /\ RoundInv(s) /\ ObjectTypes
    BY TypeParts DEF IInv
  <1>4. CASE record' = record
    BY <1>2, <1>4, SameRowStep
  <1>5. CASE SubmitFull(s) /\ s \in Owned
    <2> DEFINE y == [record[s] EXCEPT !.status = "failed", !.live = FALSE]
    <2>1. record[s] \in Record /\ record[s].status # "none"
      BY <1>3, <1>5 DEF RoundInv, SubmitFull
    <2>2. /\ y.status = "failed" /\ y.live = FALSE /\ y.run = record[s].run
          /\ y.handled = record[s].handled /\ y.resumable = record[s].resumable
      BY <2>1 DEF Record
    <2>3. record' = [record EXCEPT ![s] = y]
      BY <1>5 DEF SubmitFull
    <2> HIDE DEF y
    <2>4. record'[s] = y /\ \A t \in Tasks : t # s => record'[t] = record[t]
      BY <1>3, <2>3
    <2>5. RowStep(s)
      BY <2>1, <2>2, <2>4 DEF RowStep, CheckpointInv, Over, Final
    <2> QED BY <1>2, <2>4, <2>5, SameRowStep
  <1>6. CASE SubmitReturn(s) /\ obj[<<s, 1>>].status = "queued"
    <2> DEFINE n == <<s, 1>>
    <2>1. n \in Objects /\ n[1] = s /\ n[2] = 1
      BY SchedulerAssumption DEF Objects, Rounds
    <2>2. record' = Emitted({n}, obj) /\ submit[s] = "return"
      BY <1>6 DEF SubmitReturn
    <2>3. obj[n].status = "queued" /\ obj[n] \in Object /\ ObjectInv(n)
      BY <1>3, <1>6, <2>1 DEF IInv, ObjectTypes
    <2>4. Current(n)
      BY <2>1, <2>2, <2>3 DEF ObjectInv
    <2> HIDE DEF n
    <2>5. ASSUME NEW t \in Tasks
          PROVE  RowStep(t)
      <3>1. record'[t] = IF n[1] = t /\ MayWrite(n) THEN Projected(record[t], obj[n])
                                                    ELSE record[t]
        BY <2>1, <2>2, EmissionOf
      <3>2. CASE n[1] = t /\ MayWrite(n)
        <4>1. record[t] \in Record /\ record[t].status # "none" /\ tasks[t] = 1 /\ t \in Owned
          BY <1>3, <2>1, <2>2, <2>4, <3>2 DEF RoundInv, MayWrite, Current
        <4>2. ~Over(record[t])
          BY <2>1, <2>3, <3>2, <4>1 DEF IInv, RowInv, n
        <4>3. obj[n].resumable => t \in Continuable
          BY <2>1, <3>2 DEF CheckpointInv
        <4>4. obj[n].status # "new" /\ record'[t] = Projected(record[t], obj[n])
          BY <2>3, <3>1, <3>2
        <4> QED BY <2>3, <4>1, <4>2, <4>3, <4>4, ProjectedStep
      <3>3. CASE ~(n[1] = t /\ MayWrite(n))
        BY <3>1, <3>3, SameRowStep
      <3> QED BY <3>2, <3>3
    <2> QED BY <1>2, <2>5
  <1> QED BY <1>4, <1>5, <1>6 DEF SubmitStep, SubmitPut, SubmitFull, SubmitReturn

LEMMA DispatcherRow ==
    ASSUME IInv, CheckpointInv, Dispatcher
    PROVE  ObjectsKeepCheckpoints /\ \A t \in Tasks : RowStep(t)
  <1>1. record' = record
    BY DEF Dispatcher, DropCancelled, Start, WorkerExit
  <1>2. CASE obj' = obj
    BY <1>1, <1>2, SameRowStep DEF ObjectsKeepCheckpoints, CheckpointInv
  <1>3. CASE Start
    <2>1. PICK o \in Objects : obj' = [obj EXCEPT ![o].status = "running"]
      BY <1>3, StartPicks
    <2>2. \A p \in Objects : obj[p] \in Object
      BY TypeParts DEF IInv, ObjectTypes
    <2>3. \A p \in Objects : obj'[p].resumable = obj[p].resumable
      BY <2>1, <2>2, TypeParts DEF IInv, ObjectTypes, Object
    <2> QED BY <1>1, <2>3, SameRowStep DEF ObjectsKeepCheckpoints, CheckpointInv
  <1> QED BY <1>2, <1>3 DEF Dispatcher, DropCancelled, WorkerExit, taskVars

LEMMA QuietRows ==
    ASSUME IInv, CheckpointInv, Threads \/ \E t \in Owned : Cancel(t)
    PROVE  IInv' /\ CheckpointInv' /\ \A t \in Tasks : RowStep(t)
  <1>1. ObjectsKeepCheckpoints /\ \A t \in Tasks : RowStep(t)
    <2>1. CASE Dispatcher
      BY <2>1, DispatcherRow
    <2>2. CASE \E t \in Tasks : SubmitStep(t)
      BY <2>2, SubmitRow
    <2>3. CASE \E o \in Objects : Executor(o) \/ ChildEnds(o) \/ Callback(o)
      <3>1. PICK o \in Objects : Executor(o) \/ ChildEnds(o) \/ Callback(o)
        BY <2>3
      <3>2. /\ LocalInv(obj[o], pc[o], child[o], watch[o]) /\ ObjectTypes
            /\ tasks \in [Tasks -> 0..MaxRounds]
        BY ObjectParts, TypeParts DEF IInv
      <3>3. ThreadStep(o)
        BY <3>1, <3>2, ExecutorStep, ChildStep, CallbackStep
      <3> QED BY <3>3, ThreadRow
    <2>4. CASE \E t \in Owned : Cancel(t)
      <3>1. PICK t \in Tasks : Cancel(t)
        BY <2>4, SchedulerAssumption
      <3> QED BY <3>1, CancelMarks, MarkRow
    <2> QED BY <2>1, <2>2, <2>3, <2>4 DEF Threads
  <1>2. IInv'
    <2>1. Next
      BY SchedulerAssumption DEF Next
    <2> QED BY <2>1, NextKeeps
  <1>3. CheckpointInv'
    BY <1>1 DEF CheckpointInv, ObjectsKeepCheckpoints, RowStep
  <1> QED BY <1>1, <1>2, <1>3
-----------------------------------------------------------------------------
(* The coordinator's steps.                                               *)
LEMMA StillVars ==
    ASSUME CInv, UNCHANGED vars
    PROVE  /\ IInv' /\ CheckpointInv' /\ record' = record
           /\ Children' = Children /\ Pending' = Pending /\ Unread \subseteq Owned
           /\ \A t \in Owned : record[t].run \in Rounds
  <1>1. UNCHANGED <<record, obj>>
    BY DEF vars, taskVars
  <1>2. IInv'
    BY NextKeeps DEF CInv
  <1>3. CheckpointInv'
    BY <1>1 DEF CInv, CheckpointInv
  <1>4. Children' = Children /\ Pending' = Pending
    BY <1>1 DEF Children, Pending
  <1>5. ASSUME NEW t \in Owned
        PROVE  record[t].run \in Rounds
    <2>1. record[t] \in Record
      BY SchedulerAssumption, TypeParts DEF CInv, IInv
    <2> QED BY <2>1 DEF Record
  <1> QED BY <1>1, <1>2, <1>3, <1>4, <1>5 DEF Unread, Children

LEMMA MainKept ==
    ASSUME MainInv, UNCHANGED <<Children, Pending, record>>,
           main' # "idle" => root' \notin Ended,
           root' \in Ended => root' = root
    PROVE  MainInv'
  BY DEF MainInv, Ended

LEMMA ShownKept ==
    ASSUME ShownInv, UNCHANGED <<shown, record>>, MainTypes,
           \A t \in Owned : record[t].run \in Rounds,
           \A t \in Owned : delivered'[t] \in {0, delivered[t], record[t].run}
    PROVE  ShownInv'
  <1>1. \A t \in Owned : delivered'[t] <= record[t].run
    BY SchedulerAssumption DEF ShownInv, Rounds
  <1> QED BY <1>1 DEF ShownInv

\* A step of the main loop that leaves the scheduler alone: the parts of CInv
\* that speak of the scheduler stay, the others follow from what it assigns.
LEMMA LoopStep ==
    ASSUME CInv, UNCHANGED <<vars, shown>>, MainTypes',
           main' # "idle" => root' \notin Ended,
           root' \in Ended => root' = root,
           \A t \in Owned : delivered'[t] \in {0, delivered[t], record[t].run}
    PROVE  CInv'
  <1>1. UNCHANGED vars
    OBVIOUS
  <1>2. /\ IInv' /\ CheckpointInv' /\ record' = record
        /\ Children' = Children /\ Pending' = Pending
        /\ \A t \in Owned : record[t].run \in Rounds
    BY <1>1, StillVars
  <1>3. MainInv'
    BY <1>2, MainKept DEF CInv
  <1>4. ShownInv'
    BY <1>2, ShownKept DEF CInv
  <1> QED BY <1>2, <1>3, <1>4 DEF CInv

LEMMA Notifies ==
    ASSUME CInv, NEW found, NEW none, Notify(found, none)
    PROVE  /\ delivered' \in [Owned -> 0..MaxRounds]
           /\ \A t \in Owned : delivered'[t] \in {0, delivered[t], record[t].run}
           /\ root' \in {root, "merging"} /\ main' \in {found, none}
  <1>1. PICK new \in SUBSET Unread :
           /\ delivered' = [t \in Owned |-> IF t \in new THEN record[t].run ELSE delivered[t]]
           /\ root' = IF new = {} THEN root ELSE "merging"
           /\ main' = IF new = {} THEN none ELSE found
    BY DEF Notify
  <1>2. ASSUME NEW t \in Owned
        PROVE  record[t].run \in 0..MaxRounds
    <2>1. record[t] \in Record
      BY SchedulerAssumption, TypeParts DEF CInv, IInv
    <2> QED BY <2>1 DEF Record, Rounds
  <1> QED BY <1>1, <1>2 DEF CInv, MainTypes

LEMMA LoopKeeps ==
    ASSUME CInv,
           \/ RequestProvider \/ BatchEnds \/ Settling \/ WaitEnds \/ Settled
           \/ Abort \/ BeginAttempt \/ GiveUp \/ WaitGuided
           \/ \E t \in Owned : Dispatch(t) \/ SyncResult(t)
    PROVE  CInv'
  <1> USE DEF Ended
  <1>1. MainTypes /\ (main # "idle" => root \notin Ended)
        /\ CoordinatorAssumption
    BY CoordinatorAssumption DEF CInv, MainInv
  <1>2. CASE RequestProvider
    <2>1. /\ delivered' \in [Owned -> 0..MaxRounds]
          /\ \A t \in Owned : delivered'[t] \in {0, delivered[t], record[t].run}
          /\ root' \in {root, "merging"} /\ main' = "provider"
      BY <1>2, Notifies DEF RequestProvider
    <2>2. MainTypes'
      BY <1>1, <1>2, <2>1 DEF RequestProvider, MainTypes
    <2> QED BY <1>1, <1>2, <2>1, <2>2, LoopStep DEF RequestProvider
  <1>3. CASE Settled
    <2>1. /\ delivered' \in [Owned -> 0..MaxRounds]
          /\ \A t \in Owned : delivered'[t] \in {0, delivered[t], record[t].run}
          /\ root' \in {root, "merging"} /\ main' \in {"request", "complete"}
      BY <1>1, <1>3, Notifies DEF Settled, MainTypes
    <2>2. MainTypes'
      BY <1>1, <1>3, <2>1 DEF Settled, MainTypes
    <2> QED BY <1>1, <1>3, <2>1, <2>2, LoopStep DEF Settled
  <1>4. CASE BatchEnds
    <2>1. MainTypes'
      BY <1>1, <1>4 DEF BatchEnds, MainTypes
    <2> QED BY <1>1, <1>4, <2>1, LoopStep DEF BatchEnds
  <1>5. CASE Settling
    <2>1. MainTypes' /\ root' \in {root, "waiting_children"}
      BY <1>1, <1>5 DEF Settling, MainTypes
    <2> QED BY <1>1, <1>5, <2>1, LoopStep DEF Settling
  <1>6. CASE WaitEnds
    <2>1. MainTypes' /\ root' \in {root, "merging"}
      BY <1>1, <1>6 DEF WaitEnds, MainTypes
    <2> QED BY <1>1, <1>6, <2>1, LoopStep DEF WaitEnds
  <1>7. CASE Abort
    <2>1. MainTypes' /\ root' \in {root, "cancelling"}
      BY <1>1, <1>7 DEF Abort, MainTypes, Pending, Children
    <2> QED BY <1>1, <1>7, <2>1, LoopStep DEF Abort
  <1>8. CASE BeginAttempt
    <2>1. MainTypes'
      <3>1. attempt' \in 0..MaxAttempts
        BY <1>1, <1>8 DEF BeginAttempt, MainTypes, CoordinatorAssumption
      <3>2. delivered' \in [Owned -> 0..MaxRounds]
        BY <1>8, SchedulerAssumption DEF BeginAttempt
      <3> QED BY <1>1, <1>8, <3>1, <3>2 DEF BeginAttempt, MainTypes
    <2>2. root' \in {"none", "running"} /\ \A t \in Owned : delivered'[t] = 0
      BY <1>8 DEF BeginAttempt
    <2> QED BY <1>1, <1>8, <2>1, <2>2, LoopStep DEF BeginAttempt
  <1>9. CASE GiveUp
    <2>1. MainTypes'
      <3>1. delivered' \in [Owned -> 0..MaxRounds]
        BY <1>9, SchedulerAssumption DEF GiveUp
      <3> QED BY <1>1, <1>9, <3>1 DEF GiveUp, MainTypes
    <2>2. main # "idle" /\ root' = root /\ \A t \in Owned : delivered'[t] = 0
      BY <1>9 DEF GiveUp
    <2> QED BY <1>1, <1>9, <2>1, <2>2, LoopStep DEF GiveUp
  <1>10. CASE WaitGuided
    <2>1. MainTypes'
      BY <1>1, <1>10 DEF WaitGuided, MainTypes
    <2> QED BY <1>1, <1>10, <2>1, LoopStep DEF WaitGuided
  <1>11. CASE \E t \in Owned : Dispatch(t)
    <2>1. PICK t \in Owned : Dispatch(t)
      BY <1>11
    <2>2. MainTypes' /\ root' \in {root, "running"}
      BY <1>1, <2>1 DEF Dispatch, MainTypes
    <2> QED BY <1>1, <2>1, <2>2, LoopStep DEF Dispatch
  <1>12. CASE \E t \in Owned : SyncResult(t)
    <2>1. PICK t \in Owned : SyncResult(t)
      BY <1>12
    <2>2. delivered' = [delivered EXCEPT ![t] = record[t].run] /\ main = "tools"
          /\ UNCHANGED <<vars, root, attempt, main, started, outcome, toCancel, shown, call>>
      BY <2>1 DEF SyncResult
    <2>3. record[t].run \in 0..MaxRounds
      <3>1. record[t] \in Record
        BY SchedulerAssumption, TypeParts DEF CInv, IInv
      <3> QED BY <3>1 DEF Record, Rounds
    <2>4. MainTypes' /\ \A s \in Owned : delivered'[s] \in {0, delivered[s], record[s].run}
      BY <1>1, <2>2, <2>3 DEF MainTypes
    <2> QED BY <1>1, <2>2, <2>4, LoopStep
  <1> QED BY <1>2, <1>3, <1>4, <1>5, <1>6, <1>7, <1>8, <1>9, <1>10, <1>11, <1>12
LEMMA EndingKeeps ==
    ASSUME CInv, Complete \/ Drained
    PROVE  CInv'
  <1> USE DEF Ended
  <1>1. MainTypes /\ MainInv /\ ShownInv
    BY DEF CInv
  <1>2. UNCHANGED <<vars, attempt, started, toCancel, delivered, shown, call>>
    BY DEF Complete, Drained
  <1>3. UNCHANGED vars
    BY <1>2
  <1>4. /\ IInv' /\ CheckpointInv' /\ record' = record
        /\ Children' = Children /\ Pending' = Pending
        /\ \A t \in Owned : record[t].run \in Rounds
    BY <1>3, StillVars
  <1>5. ShownInv'
    BY <1>1, <1>2, <1>4, ShownKept
  <1>6. CASE Complete
    <2>1. MainTypes'
      BY <1>1, <1>2, <1>6 DEF Complete, MainTypes
    <2>2. CASE root' = "completed" /\ \A t \in Children : Over(record[t]) /\ record[t].handled
      <3>1. Pending = {} /\ main' = "idle"
        BY <1>1, <1>6, <2>2 DEF Complete, Pending, MainInv
      <3> QED BY <1>4, <1>5, <2>1, <2>2, <3>1 DEF CInv, MainInv
    <2>3. CASE UNCHANGED root
      <3>1. MainInv'
        BY <1>1, <1>4, <1>6, <2>3, MainKept DEF Complete, MainInv
      <3> QED BY <1>4, <1>5, <2>1, <3>1 DEF CInv
    <2> QED BY <1>6, <2>2, <2>3 DEF Complete
  <1>7. CASE Drained
    <2>1. MainTypes' /\ root' \in {"none", "failed", "cancelled"} /\ main' = "idle"
      BY <1>1, <1>2, <1>7 DEF Drained, MainTypes
    <2>2. MainInv'
      BY <1>4, <1>7, <2>1 DEF Drained, MainInv
    <2> QED BY <1>4, <1>5, <2>1, <2>2 DEF CInv
  <1> QED BY <1>6, <1>7

\* Acknowledging a result marks rows, and nothing the scheduler looks at.
Acknowledged(t) == \/ record'[t] = record[t]
                   \/ record'[t] = [record[t] EXCEPT !.handled = TRUE]

LEMMA AcknowledgedRow ==
    ASSUME NEW t, record[t] \in Record, Acknowledged(t)
    PROVE  /\ record'[t] \in Record /\ record'[t].status = record[t].status
           /\ record'[t].live = record[t].live /\ record'[t].run = record[t].run
           /\ record'[t].resumable = record[t].resumable
           /\ Over(record'[t]) <=> Over(record[t])
           /\ \A x : Shows(record'[t], x) <=> Shows(record[t], x)
  <1>1. /\ record'[t] \in Record /\ record'[t].status = record[t].status
        /\ record'[t].live = record[t].live /\ record'[t].run = record[t].run
        /\ record'[t].resumable = record[t].resumable
    BY DEF Acknowledged, Record
  <1> QED BY <1>1 DEF Over, Shows

LEMMA AcknowledgeKeeps ==
    ASSUME IInv, record' = [t \in Tasks |-> record'[t]], \A t \in Tasks : Acknowledged(t),
           UNCHANGED <<tasks, taskVars, submit, queue, turns, ctlVars>>
    PROVE  IInv'
  <1>1. UNCHANGED <<tasks, obj, pc, child, watch, submit, queue, limit, closed, worker>>
    BY DEF taskVars, ctlVars
  <1>2. \A t \in Tasks :
           /\ record'[t] \in Record /\ record'[t].status = record[t].status
           /\ record'[t].run = record[t].run
           /\ Over(record'[t]) <=> Over(record[t])
           /\ \A x : Shows(record'[t], x) <=> Shows(record[t], x)
    BY AcknowledgedRow, TypeParts DEF IInv
  <1>3. record' \in [Tasks -> Record]
    BY <1>2
  <1>4. TypeOK'
    BY <1>1, <1>3 DEF IInv, TypeOK
  <1>5. \A o \in Objects : ObjectInv(o)'
    BY <1>1 DEF IInv, ObjectInv, Current
  <1>6. QueueInv' /\ LimitInv'
    BY <1>1, LimitKept DEF IInv, QueueInv, Waits, Current, Live, Occupies
  <1>7. ASSUME NEW t \in Tasks
        PROVE  PutInv(t)' /\ RoundInv(t)' /\ RowInv(t)'
    <2>1. PutInv(t) /\ RoundInv(t) /\ RowInv(t)
      BY DEF IInv
    <2>2. /\ record'[t].status = record[t].status /\ record'[t].run = record[t].run
          /\ Over(record'[t]) <=> Over(record[t])
          /\ \A x : Shows(record'[t], x) <=> Shows(record[t], x)
      BY <1>2
    <2>3. PutInv(t)'
      BY <1>1, <2>1, <2>2 DEF PutInv, Waits, Current
    <2>4. RoundInv(t)'
      BY <1>1, <2>1, <2>2 DEF RoundInv
    <2>5. RowInv(t)'
      BY <1>1, <2>1, <2>2 DEF RowInv, Owed
    <2> QED BY <2>3, <2>4, <2>5
  <1> QED BY <1>4, <1>5, <1>6, <1>7 DEF IInv

LEMMA AcceptedKeeps ==
    ASSUME CInv, Accepted
    PROVE  CInv'
  <1> USE DEF Ended
  <1>1. /\ MainTypes /\ MainInv /\ ShownInv /\ CheckpointInv /\ IInv
        /\ record \in [Tasks -> Record]
    BY TypeParts DEF CInv, IInv
  <1> DEFINE read == {t \in Owned : delivered[t] # 0}
  <1>2. /\ record' = [t \in Tasks |-> IF t \in read THEN [record[t] EXCEPT !.handled = TRUE]
                                      ELSE record[t]]
        /\ shown' = [t \in Owned |-> IF t \in read THEN delivered[t] ELSE shown[t]]
        /\ delivered' = [t \in Owned |-> 0]
        /\ main = "provider" /\ main' \in {"tools", "settle"}
        /\ UNCHANGED <<tasks, taskVars, submit, queue, turns, ctlVars>>
        /\ UNCHANGED <<root, attempt, started, outcome, toCancel, call>>
    BY DEF Accepted, Acknowledge
  <1>3. \A t \in Tasks : Acknowledged(t)
    BY <1>2 DEF Acknowledged
  <1>4. IInv'
    BY <1>1, <1>2, <1>3, AcknowledgeKeeps
  <1>5. \A t \in Tasks : /\ record'[t].run = record[t].run
                         /\ record'[t].resumable = record[t].resumable
    BY <1>1, <1>3, AcknowledgedRow
  <1>6. CheckpointInv'
    BY <1>1, <1>2, <1>5 DEF CheckpointInv, taskVars
  <1>7. MainTypes'
    <2>1. shown' \in [Owned -> 0..MaxRounds] /\ delivered' \in [Owned -> 0..MaxRounds]
      BY <1>1, <1>2, SchedulerAssumption DEF MainTypes
    <2> QED BY <1>1, <1>2, <2>1 DEF MainTypes
  <1>8. MainInv'
    BY <1>1, <1>2 DEF MainInv
  <1>9. ShownInv'
    <2>1. ASSUME NEW t \in Owned
          PROVE  /\ delivered'[t] <= record'[t].run /\ shown'[t] <= record'[t].run
                 /\ record'[t].handled => shown'[t] # 0
      <3>1. /\ t \in Tasks /\ record[t].run \in Rounds /\ record'[t].run = record[t].run
            /\ delivered[t] <= record[t].run /\ shown[t] <= record[t].run
            /\ record[t].handled => shown[t] # 0
            /\ delivered'[t] = 0
        BY <1>1, <1>2, <1>5, SchedulerAssumption DEF ShownInv, Record
      <3>2. CASE t \in read
        BY <1>2, <3>1, <3>2, SchedulerAssumption DEF Rounds
      <3>3. CASE t \notin read
        BY <1>2, <3>1, <3>3, SchedulerAssumption DEF Rounds
      <3> QED BY <3>2, <3>3
    <2> QED BY <2>1 DEF ShownInv
  <1> QED BY <1>4, <1>6, <1>7, <1>8, <1>9 DEF CInv

LEMMA QuietMain ==
    ASSUME CInv, Threads \/ \E t \in Owned : Cancel(t),
           UNCHANGED <<root, main, delivered, shown>>, MainTypes'
    PROVE  CInv'
  <1>1. IInv' /\ CheckpointInv' /\ \A t \in Tasks : RowStep(t)
    BY QuietRows DEF CInv
  <1>2. \A t \in Owned : RowStep(t)
    BY <1>1, SchedulerAssumption
  <1>3. Children' = Children /\ Pending' \subseteq Pending
    BY <1>2 DEF RowStep, Children, Pending
  <1>4. MainInv'
    BY <1>2, <1>3 DEF CInv, MainInv, RowStep, Children
  <1>5. ShownInv'
    BY <1>2 DEF CInv, ShownInv, RowStep
  <1> QED BY <1>1, <1>4, <1>5 DEF CInv

LEMMA CancelChildKeeps ==
    ASSUME CInv, NEW t \in Owned, CancelChild(t)
    PROVE  CInv'
  <1>1. MainTypes'
    BY DEF CInv, MainTypes, CancelChild
  <1>2. CASE Cancel(t)
    BY <1>1, <1>2, QuietMain DEF CancelChild
  <1>3. CASE UNCHANGED vars
    <2>1. main # "idle" => root \notin Ended
      BY DEF CInv, MainInv
    <2> QED BY <1>1, <1>3, <2>1, LoopStep DEF CancelChild
  <1> QED BY <1>2, <1>3 DEF CancelChild

\* A new or resumed run of a child begins with nothing handled of it.
LEMMA CallRows ==
    ASSUME IInv, CheckpointInv, NEW t \in Owned, SubmitRegister(t) \/ Resume(t)
    PROVE  /\ IInv' /\ CheckpointInv'
           /\ \A s \in Owned : /\ record'[s].run >= record[s].run
                               /\ record'[s].handled => record[s].handled
  <1>1. /\ t \in Tasks /\ record \in [Tasks -> Record] /\ RoundInv(t) /\ ObjectTypes
        /\ \A s \in Tasks : record[s].run \in Rounds
    BY TypeParts, SchedulerAssumption DEF IInv, Record
  <1>2. IInv'
    BY <1>1, RegisterKeeps, ResumeKeeps
  <1>3. ASSUME NEW r, NEW y, record' = [record EXCEPT ![t] = y],
               obj' = [obj EXCEPT ![<<t, r>>] = Fresh("queued")],
               y.run = r, r >= record[t].run, y.handled = FALSE, y.resumable = FALSE,
               t \in Continuable \/ r = 1
        PROVE  /\ CheckpointInv'
               /\ \A s \in Owned : /\ record'[s].run >= record[s].run
                                   /\ record'[s].handled => record[s].handled
    <2>1. /\ record'[t] = y /\ \A s \in Tasks : s # t => record'[s] = record[s]
      BY <1>1, <1>3
    <2>2. \A o \in Objects : obj'[o].resumable => obj[o].resumable
      <3>1. Fresh("queued").resumable = FALSE
        BY DEF Fresh
      <3> QED BY <1>1, <1>3, <3>1 DEF ObjectTypes
    <2>3. CheckpointInv'
      BY <1>3, <2>1, <2>2 DEF CheckpointInv
    <2>4. \A s \in Owned : record[s].run >= record[s].run
      BY <1>1, SchedulerAssumption DEF Rounds
    <2> QED BY <1>3, <2>1, <2>3, <2>4, SchedulerAssumption
  <1>4. CASE SubmitRegister(t)
    <2> DEFINE y == [NoRecord EXCEPT !.status = "queued"]
    <2>1. y.run = 1 /\ y.handled = FALSE /\ y.resumable = FALSE
      BY DEF NoRecord
    <2>2. record' = [record EXCEPT ![t] = y] /\ obj' = [obj EXCEPT ![<<t, 1>>] = Fresh("queued")]
      BY <1>4 DEF SubmitRegister
    <2>3. 1 >= record[t].run
      BY <1>1, <1>4 DEF RoundInv, SubmitRegister
    <2> HIDE DEF y
    <2> QED BY <1>2, <1>3, <2>1, <2>2, <2>3
  <1>5. CASE Resume(t)
    <2>1. PICK r \in Rounds : r = record[t].run + 1
      BY <1>1, <1>5, SchedulerAssumption DEF Resume, Rounds
    <2> DEFINE y == [status |-> "queued", live |-> TRUE, run |-> r, resumable |-> FALSE,
                     handled |-> FALSE]
    <2>2. record' = [record EXCEPT ![t] = y] /\ obj' = [obj EXCEPT ![<<t, r>>] = Fresh("queued")]
          /\ record[t].resumable
      BY <1>5, <2>1 DEF Resume
    <2>3. t \in Continuable /\ r >= record[t].run
      BY <1>1, <2>1, <2>2, SchedulerAssumption DEF CheckpointInv, Rounds
    <2>4. y.run = r /\ y.handled = FALSE /\ y.resumable = FALSE
      OBVIOUS
    <2> HIDE DEF y
    <2> QED BY <1>2, <1>3, <2>2, <2>3, <2>4
  <1> QED BY <1>4, <1>5

LEMMA CallKeeps ==
    ASSUME CInv, NEW t \in Owned, CallReaches(t)
    PROVE  CInv'
  <1> USE DEF Ended
  <1>1. MainTypes'
    BY CoordinatorAssumption DEF CInv, MainTypes, CallReaches, CoordinatorAssumption
  <1>2. UNCHANGED <<root, main, delivered, shown>>
    BY DEF CallReaches
  <1>3. CASE RootOpen(t) /\ (SubmitRegister(t) \/ Resume(t))
    <2>1. /\ IInv' /\ CheckpointInv'
          /\ \A s \in Owned : /\ record'[s].run >= record[s].run
                              /\ record'[s].handled => record[s].handled
      BY <1>3, CallRows DEF CInv
    <2>2. MainInv'
      BY <1>2, <1>3 DEF RootOpen, MainInv
    <2>3. \A s \in Owned : /\ record[s].run \in Nat /\ record'[s].run \in Nat
                           /\ delivered[s] \in Nat /\ shown[s] \in Nat
      <3>1. \A s \in Owned : record[s] \in Record /\ record'[s] \in Record
        BY <2>1, SchedulerAssumption, TypeParts DEF CInv, IInv
      <3> QED BY <3>1, SchedulerAssumption DEF CInv, MainTypes, Record, Rounds
    <2>4. ShownInv'
      BY <1>2, <2>1, <2>3 DEF CInv, ShownInv
    <2> QED BY <1>1, <2>1, <2>2, <2>4 DEF CInv
  <1>4. CASE UNCHANGED vars
    <2>1. main # "idle" => root \notin Ended
      BY DEF CInv, MainInv
    <2> QED BY <1>1, <1>2, <1>4, <2>1, LoopStep
  <1> QED BY <1>3, <1>4 DEF CallReaches

LEMMA CoordinatorInitInv ==
    ASSUME CoordinatorInit
    PROVE  CInv
  <1>1. IInv
    BY InitInv DEF CoordinatorInit
  <1>2. /\ obj = [o \in Objects |-> Fresh("new")] /\ record = [t \in Tasks |-> NoRecord]
        /\ root = "none" /\ attempt = 0 /\ main = "idle" /\ started = FALSE
        /\ outcome = "none" /\ toCancel = {}
        /\ delivered = [t \in Owned |-> 0] /\ shown = [t \in Owned |-> 0]
        /\ call = [t \in Owned |-> 0]
    BY DEF CoordinatorInit, Init
  <1>3. MainTypes
    <2>1. 0 \in 0..MaxRounds /\ 0 \in 0..MaxAttempts
      BY SchedulerAssumption, CoordinatorAssumption
    <2>2. /\ delivered \in [Owned -> 0..MaxRounds] /\ shown \in [Owned -> 0..MaxRounds]
          /\ call \in [Owned -> 0..MaxAttempts] /\ attempt \in 0..MaxAttempts
      BY <1>2, <2>1
    <2>3. started \in BOOLEAN /\ toCancel \subseteq Owned
      BY <1>2
    <2> QED BY <1>2, <2>2, <2>3 DEF MainTypes
  <1>4. NoRecord.run = 1 /\ NoRecord.handled = FALSE /\ NoRecord.resumable = FALSE
        /\ Fresh("new").resumable = FALSE
    BY DEF NoRecord, Fresh
  <1>5. MainInv
    BY <1>2 DEF MainInv, Ended
  <1>6. CheckpointInv
    BY <1>2, <1>4 DEF CheckpointInv
  <1>7. ShownInv
    BY <1>2, <1>4, SchedulerAssumption DEF ShownInv
  <1> QED BY <1>1, <1>3, <1>5, <1>6, <1>7 DEF CInv

LEMMA CoordinatorKeeps ==
    ASSUME CInv, [CoordinatorNext]_allVars
    PROVE  CInv'
  <1>1. CASE MainLoop
    BY <1>1, LoopKeeps, AcceptedKeeps, EndingKeeps, CancelChildKeeps DEF MainLoop
  <1>2. CASE BeginAttempt \/ GiveUp \/ WaitGuided
    BY <1>2, LoopKeeps
  <1>3. CASE \E t \in Owned : Dispatch(t) \/ CallReaches(t) \/ SyncResult(t)
    BY <1>3, LoopKeeps, CallKeeps
  <1>4. CASE (Threads \/ \E t \in Owned : Cancel(t)) /\ UNCHANGED mainVars
    <2>1. MainTypes' /\ UNCHANGED <<root, main, delivered, shown>>
      BY <1>4 DEF mainVars, CInv, MainTypes
    <2> QED BY <1>4, <2>1, QuietMain
  <1>5. CASE UNCHANGED allVars
    <2>1. UNCHANGED vars /\ UNCHANGED mainVars
      BY <1>5 DEF allVars
    <2>2. MainTypes' /\ UNCHANGED <<root, main, delivered, shown>>
      BY <2>1 DEF mainVars, CInv, MainTypes
    <2>3. main # "idle" => root \notin Ended
      BY DEF CInv, MainInv
    <2> QED BY <2>1, <2>2, <2>3, LoopStep
  <1> QED BY <1>1, <1>2, <1>3, <1>4, <1>5 DEF CoordinatorNext

LEMMA CoordinatorInvariant == CoordinatorSpec => []CInv
  <1>1. CoordinatorInit => CInv
    BY CoordinatorInitInv
  <1>2. CInv /\ [CoordinatorNext]_allVars => CInv'
    BY CoordinatorKeeps
  <1> QED BY <1>1, <1>2, PTL DEF CoordinatorSpec

\* The main loop's variables and the scheduler's keep their types.
THEOREM CoordinatorTypeCorrect == CoordinatorSpec => []CoordinatorTypeOK
  <1>1. CInv => CoordinatorTypeOK
    BY DEF CInv, IInv, MainTypes, CoordinatorTypeOK
  <1> QED BY <1>1, CoordinatorInvariant, PTL

LEMMA ChildrenQuiet ==
    ASSUME CInv, Pending = {}
    PROVE  /\ \A t \in Children : Over(record[t])
           /\ \A o \in Objects : o[1] \in Owned =>
                /\ child[o] # "running" /\ pc[o] \notin {"enter", "run", "handler"}
  <1>1. \A t \in Children : Over(record[t])
    BY DEF Pending
  <1>2. ASSUME NEW o \in Objects, o[1] \in Owned
        PROVE  child[o] # "running" /\ pc[o] \notin {"enter", "run", "handler"}
    <2>1. IInv /\ o[1] \in Tasks /\ o[2] # 0 /\ o = <<o[1], o[2]>>
      BY ObjectPair DEF CInv
    <2>2. CASE o[1] \in Children
      BY <1>1, <2>1, <2>2, OverIsQuiet
    <2>3. CASE o[1] \notin Children
      <3>1. RoundInv(o[1]) /\ o[2] \in Rounds /\ record[o[1]].status = "none"
        BY <1>2, <2>1, <2>3, ObjectPair DEF IInv, Children
      <3>2. obj[<<o[1], o[2]>>].status = "new"
        BY <1>2, <3>1 DEF RoundInv
      <3>3. obj[o].status = "new" /\ ObjectInv(o)
        BY <2>1, <3>2 DEF IInv
      <3> QED BY <3>3 DEF ObjectInv
    <2> QED BY <2>2, <2>3
  <1> QED BY <1>1, <1>2

\* A main task that reports completion (finish in task_ledger.py) has no child
\* that executes or could still run and none left to acknowledge, and it stays
\* so whatever tool threads of an earlier attempt do.
THEOREM CompletionIsABarrier == CoordinatorSpec => []CompletionBarrier
  <1>1. CInv => CompletionBarrier
    <2>1. SUFFICES ASSUME CInv, root = "completed"
                   PROVE  /\ \A t \in Children : Over(record[t]) /\ record[t].handled
                          /\ \A o \in Objects : o[1] \in Owned => child[o] # "running"
      BY DEF CompletionBarrier
    <2>2. Pending = {} /\ \A t \in Children : record[t].handled
      BY <2>1 DEF CInv, MainInv, Ended
    <2> QED BY <2>1, <2>2, ChildrenQuiet
  <1> QED BY <1>1, CoordinatorInvariant, PTL

\* A main task that failed or was cancelled leaves no child executing.
THEOREM FailureLeavesNothing == CoordinatorSpec => []QuietAfterFailure
  <1>1. CInv => QuietAfterFailure
    BY ChildrenQuiet DEF CInv, MainInv, Ended, QuietAfterFailure
  <1> QED BY <1>1, CoordinatorInvariant, PTL

\* What is handled has been shown: of a child that counts as handled, an
\* accepted request has shown the result of some round, and of one that keeps
\* no checkpoint (and so is never resumed) the result of its only round.
HandledWasShown ==
    \A t \in Owned : record[t].handled =>
        /\ shown[t] \in 1..record[t].run
        /\ t \notin Continuable => shown[t] = record[t].run

THEOREM HandledChildrenWereShown == CoordinatorSpec => []HandledWasShown
  <1>1. ASSUME CInv
        PROVE  HandledWasShown
    <2>1. ASSUME NEW t \in Owned, record[t].handled
          PROVE  /\ shown[t] \in 1..record[t].run
                 /\ t \notin Continuable => shown[t] = record[t].run
      <3>1. record[t] \in Record /\ t \in Tasks
        BY <1>1, SchedulerAssumption, TypeParts DEF CInv, IInv
      <3>2. /\ shown[t] \in 0..MaxRounds /\ shown[t] <= record[t].run /\ shown[t] # 0
            /\ record[t].run \in Nat
        BY <1>1, <2>1, <3>1, SchedulerAssumption DEF CInv, MainTypes, ShownInv, Record, Rounds
      <3>3. t \notin Continuable => record[t].run = 1
        BY <1>1, <3>1 DEF CInv, CheckpointInv
      <3> QED BY <3>2, <3>3, SchedulerAssumption
    <2> QED BY <2>1 DEF HandledWasShown
  <1> QED BY <1>1, CoordinatorInvariant, PTL

\* Where no child keeps a checkpoint, as in the run that checks it, a child
\* counts as handled only when the result of its last round was shown.
THEOREM HandledMeansLastShown ==
    ASSUME Owned \cap Continuable = {}
    PROVE  CoordinatorSpec => []HandledMeansShown
  <1>1. HandledWasShown => HandledMeansShown
    BY DEF HandledWasShown, HandledMeansShown, Children
  <1> QED BY <1>1, HandledChildrenWereShown, PTL
=============================================================================
