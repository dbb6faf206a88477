------------------------------ MODULE CronProofs ------------------------------
(***************************************************************************)
(* Proofs about user scheduled tasks: the types, which include that every  *)
(* file is one the store would write, the slots of the host's scheduler,   *)
(* running tasks having someone who executes them, and interrupted tasks   *)
(* not being run again before a user has enabled them.                     *)
(***************************************************************************)
EXTENDS Cron, FiniteSetTheorems, TLAPS

RunState == [pc : {"idle", "claim", "check", "work", "finish"}, task : Tasks,
             attempt : 0..MaxClaims, cancel : BOOLEAN, failed : BOOLEAN,
             manual : BOOLEAN, proc : Procs]
Busy(w) == run[w].pc # "idle"
HostWorkers == {w \in Workers : Busy(w) /\ run[w].proc = Host}

\* A running task still has a run left, so that every way to end it is a file
\* that the store accepts.
RunsLeft == \A t \in Tasks : task[t].status = "running" => task[t].runs < MaxRuns

\* Nobody starts a task by hand in the host: its workers all have slots.
ManualElsewhere == \A w \in Workers : Busy(w) /\ run[w].manual => run[w].proc # Host

FiniteSlots == IsFiniteSet(HostWorkers)

\* Workers that outlive the host's scheduler have been told to stop.
OutlivedAreCancelled ==
    sched[Host] # "on" \/ stopping[Host] => \A w \in HostWorkers : run[w].cancel

\* What still executes an interrupted task can only cancel it.
HeldRests ==
    \A t \in held :
        /\ task[t].status # "enabled"
        /\ \A w \in Workers : Executing(w) /\ run[w].task = t =>
               run[w].pc # "check" /\ run[w].cancel

IInv == /\ TypeOK /\ RunsLeft /\ RunningIsExecuted /\ ManualElsewhere
        /\ FiniteSlots /\ SlotsHeld /\ OutlivedAreCancelled /\ HeldRests
-----------------------------------------------------------------------------
(* Types.                                                                  *)
ThreadState == {"off", "recovered", "on"}

LEMMA TypeParts ==
    TypeOK <=>
        /\ task \in [Tasks -> Task] /\ \A t \in Tasks : Valid(task[t])
        /\ listed \in [Procs -> SUBSET Tasks]
        /\ sched \in [Procs -> ThreadState] /\ stopping \in [Procs -> BOOLEAN]
        /\ run \in [Workers -> RunState]
        /\ claims \in 0..MaxClaims /\ ops \in 0..MaxUserOps /\ stops \in 0..MaxStops
        /\ held \in SUBSET Tasks /\ ended \in SUBSET Tasks /\ lost \in SUBSET (0..MaxClaims)
  BY DEF TypeOK, RunState, ThreadState

LEMMA TypePrime ==
    ASSUME task' \in [Tasks -> Task] /\ \A t \in Tasks : Valid(task'[t]),
           listed' \in [Procs -> SUBSET Tasks],
           sched' \in [Procs -> ThreadState] /\ stopping' \in [Procs -> BOOLEAN],
           run' \in [Workers -> RunState],
           claims' \in 0..MaxClaims /\ ops' \in 0..MaxUserOps /\ stops' \in 0..MaxStops,
           held' \in SUBSET Tasks, ended' \in SUBSET Tasks, lost' \in SUBSET (0..MaxClaims)
    PROVE  TypeOK'
  BY DEF TypeOK, RunState, ThreadState

LEMMA IdleType == Idle \in RunState /\ Idle.pc = "idle"
  <1>1. (CHOOSE t \in Tasks : TRUE) \in Tasks
    BY CronAssumption
  <1>2. Host \in Procs /\ 0 \in 0..MaxClaims
    BY CronAssumption
  <1> QED BY <1>1, <1>2 DEF Idle, RunState

\* The worker a task is handed to, by the scheduler or by hand.
LEMMA ClaimType ==
    ASSUME NEW t \in Tasks, NEW p \in Procs
    PROVE  /\ [Idle EXCEPT !.pc = "claim", !.task = t, !.proc = p] \in RunState
           /\ [Idle EXCEPT !.pc = "claim", !.task = t, !.manual = TRUE, !.proc = p] \in RunState
  BY IdleType DEF RunState

\* What a worker computes may count one run too many: the store refuses it.
Computed == [status : Status, attempt : 0..MaxClaims, next : {"none", "later", "due"},
             runs : Nat, why : {"none", "interrupted", "stopped"}]

LEMMA ValidComputed ==
    ASSUME NEW new \in Computed, Valid(new)
    PROVE  new \in Task
  <1>1. MaxRuns \in Nat
    BY CronAssumption
  <1>2. new.runs \in 0..MaxRuns
    BY <1>1 DEF Valid, Computed
  <1> QED BY <1>2 DEF Computed, Task

LEMMA TaskComputed ==
    ASSUME NEW r \in Task
    PROVE  r \in Computed
  <1>1. MaxRuns \in Nat
    BY CronAssumption
  <1>2. r.runs \in Nat
    BY <1>1 DEF Task
  <1> QED BY <1>2 DEF Computed, Task

LEMMA WrittenType ==
    ASSUME TypeOK, NEW t \in Tasks, NEW new \in Computed, Valid(new),
           NEW file, file = [task EXCEPT ![t] = new]
    PROVE  file \in [Tasks -> Task] /\ \A u \in Tasks : Valid(file[u])
  <1>1. new \in Task
    BY ValidComputed
  <1>2. task \in [Tasks -> Task] /\ \A u \in Tasks : Valid(task[u])
    BY TypeParts
  <1> QED BY <1>1, <1>2

LEMMA UpdatedType ==
    ASSUME TypeOK, NEW t \in Tasks, NEW new \in Computed
    PROVE  /\ Updated(t, new) \in [Tasks -> Task]
           /\ \A u \in Tasks : Valid(Updated(t, new)[u])
  <1>1. CASE Present(t) /\ Valid(new)
    BY <1>1, WrittenType DEF Updated
  <1>2. CASE ~(Present(t) /\ Valid(new))
    BY <1>2, TypeParts DEF Updated
  <1> QED BY <1>1, <1>2

LEMMA RevertedType ==
    ASSUME TypeOK, NEW w \in Workers
    PROVE  /\ Reverted(w) \in [Tasks -> Task]
           /\ \A u \in Tasks : Valid(Reverted(w)[u])
  <1> DEFINE t == run[w].task
  <1>1. t \in Tasks /\ task[t] \in Task
    BY TypeParts DEF RunState
  <1>2. [task[t] EXCEPT !.status = "enabled"] \in Computed
    BY <1>1, TaskComputed DEF Computed, Status
  <1> QED BY <1>1, <1>2, UpdatedType DEF Reverted

LEMMA FinishedComputed ==
    ASSUME TypeOK, NEW t \in Tasks, NEW w \in Workers, NEW more \in BOOLEAN
    PROVE  Finished(t, w, more) \in Computed
  <1> DEFINE cur == task[t]
  <1>1. cur \in Computed
    BY TypeParts, TaskComputed
  <1> HIDE DEF cur
  <1>2. /\ [cur EXCEPT !.status = "cancelled", !.why = "stopped", !.next = "none"] \in Computed
        /\ [cur EXCEPT !.status = "failed"] \in Computed
    BY <1>1 DEF Computed, Status
  <1>3. cur.runs + 1 \in Nat
    BY <1>1 DEF Computed
  <1>4. /\ [cur EXCEPT !.runs = @ + 1, !.status = "completed", !.next = "none"] \in Computed
        /\ [cur EXCEPT !.runs = @ + 1, !.status = "enabled", !.next = "later"] \in Computed
    BY <1>1, <1>3 DEF Computed, Status
  <1> QED BY <1>2, <1>4 DEF Finished, cur
LEMMA TypeInit == Init => TypeOK
  <1> SUFFICES ASSUME Init
               PROVE  TypeOK
    OBVIOUS
  <1>1. MaxRuns \in Nat \ {0} /\ {MaxUserOps, MaxClaims, MaxStops} \subseteq Nat
    BY CronAssumption
  <1> DEFINE new == [status |-> "enabled", attempt |-> 0, next |-> "due",
                     runs |-> 0, why |-> "none"]
  <1>2. new \in Task /\ Valid(new)
    BY <1>1 DEF Task, Valid, Status
  <1>3. task = [t \in Tasks |-> new]
    BY DEF Init
  <1> HIDE DEF new
  <1>4. task \in [Tasks -> Task] /\ \A t \in Tasks : Valid(task[t])
    BY <1>2, <1>3
  <1>5. run \in [Workers -> RunState]
    BY IdleType DEF Init
  <1> QED BY <1>1, <1>4, <1>5, TypeParts DEF Init, ThreadState

\* What users do: set, cancel, edit and delete, all of them a write.
UserSteps(t) ==
    \/ \E s \in {"enabled", "paused"} : SetStatus(t, s) \/ WebEdit(t, "webSet", s)
    \/ CronCancel(t) \/ WebEdit(t, "webKeep", task[t].status) \/ DeleteTask(t)

LEMMA UserWrite ==
    ASSUME TypeOK, NEW t \in Tasks, UserSteps(t)
    PROVE  \E op \in AllUserOps, new \in Task :
               /\ UserWrites(t, op, new)
               /\ new.status = "running" => task[t].status = "running" /\ new.attempt = 0
               /\ new.runs = task[t].runs
  <1> DEFINE cur == task[t]
             Goal(new) == /\ new.status = "running" =>
                                task[t].status = "running" /\ new.attempt = 0
                          /\ new.runs = task[t].runs
  <1> SUFFICES \E op \in AllUserOps, new \in Task : UserWrites(t, op, new) /\ Goal(new)
    OBVIOUS
  <1>0. cur \in Task /\ task[t] = cur
    BY TypeParts
  <1>1. NextTime(t) \in {"none", "later", "due"}
    BY <1>0 DEF NextTime, Task
  <1> HIDE DEF cur
  <1>2. ASSUME NEW s \in {"enabled", "paused"}, SetStatus(t, s)
        PROVE  \E op \in AllUserOps, new \in Task : UserWrites(t, op, new) /\ Goal(new)
    <2>1. /\ [cur EXCEPT !.status = s, !.next = NextTime(t)] \in Task
          /\ [cur EXCEPT !.status = s] \in Task
      BY <1>0, <1>1 DEF Task, Status
    <2>2. /\ Goal([cur EXCEPT !.status = s, !.next = NextTime(t)])
          /\ Goal([cur EXCEPT !.status = s])
      BY <1>0 DEF Task
    <2> HIDE DEF Goal
    <2> QED BY <1>0, <1>2, <2>1, <2>2 DEF SetStatus, AllUserOps
  <1>3. ASSUME NEW op \in AllUserOps, NEW s \in Status, WebEdit(t, op, s),
               s = "running" => task[t].status = "running"
        PROVE  \E o \in AllUserOps, new \in Task : UserWrites(t, o, new) /\ Goal(new)
    <2>1. PICK st \in {"completed", s}, nx \in {"none", "later", "due"} :
             UserWrites(t, op, [status |-> st, next |-> nx, attempt |-> 0,
                                runs |-> task[t].runs, why |-> "none"])
      BY <1>3 DEF WebEdit
    <2> DEFINE new == [status |-> st, next |-> nx, attempt |-> 0,
                       runs |-> task[t].runs, why |-> "none"]
    <2>2. 0 \in 0..MaxClaims
      BY CronAssumption
    <2>3. new \in Task
      BY <1>0, <2>2 DEF Task, Status
    <2>4. Goal(new)
      BY <1>3
    <2> HIDE DEF Goal, new
    <2>5. UserWrites(t, op, new)
      BY <2>1 DEF new
    <2> QED BY <2>3, <2>4, <2>5
  <1>4. CASE CronCancel(t)
    <2> DEFINE new == [cur EXCEPT !.status = "cancelled"]
    <2>1. new \in Task /\ Goal(new)
      BY <1>0 DEF Task, Status
    <2>2. UserWrites(t, "cancel", new)
      BY <1>0, <1>4 DEF CronCancel
    <2> HIDE DEF Goal, new
    <2> QED BY <2>1, <2>2 DEF AllUserOps
  <1>5. CASE DeleteTask(t)
    <2> DEFINE new == [cur EXCEPT !.status = "deleted", !.next = "none"]
    <2>1. new \in Task /\ Goal(new)
      BY <1>0 DEF Task, Status
    <2>2. UserWrites(t, "delete", new)
      BY <1>0, <1>5 DEF DeleteTask
    <2> HIDE DEF Goal, new
    <2> QED BY <2>1, <2>2 DEF AllUserOps
  <1>6. task[t].status \in Status /\ {"enabled", "paused"} \subseteq Status
        /\ {"webSet", "webKeep"} \subseteq AllUserOps
    BY <1>0 DEF Task, Status, AllUserOps
  <1>7. \A s \in {"enabled", "paused"} : s # "running"
    OBVIOUS
  <1> HIDE DEF Goal
  <1>8. ASSUME NEW s \in {"enabled", "paused"}, SetStatus(t, s) \/ WebEdit(t, "webSet", s)
        PROVE  \E op \in AllUserOps, new \in Task : UserWrites(t, op, new) /\ Goal(new)
    BY <1>2, <1>3, <1>6, <1>7, <1>8
  <1>9. CASE WebEdit(t, "webKeep", task[t].status)
    BY <1>3, <1>6, <1>9
  <1> QED BY <1>4, <1>5, <1>8, <1>9 DEF UserSteps
\* Steps that leave every file alone.
FileKept ==
    \/ \E p \in Procs : List(p) \/ ThreadExit(p) \/ BackOff(p) \/ Stop(p)
                        \/ StartScheduler(p) \/ Crash(p)
    \/ \E p \in Procs, t \in Tasks, w \in Workers : Dispatch(p, t, w) \/ CronRun(p, t, w)
    \/ \E w \in Workers : Watchdog(w) \/ Work(w)

LEMMA NextCases ==
    ASSUME [Next]_vars
    PROVE  \/ UNCHANGED vars \/ FileKept \/ Recover
           \/ \E t \in Tasks : TimePasses(t) \/ UserSteps(t)
           \/ \E w \in Workers : Claim(w) \/ Check(w) \/ \E more \in BOOLEAN : Finish(w, more)
  <1>1. CASE UNCHANGED vars
    BY <1>1
  <1>2. ASSUME NEW t \in Tasks, TimePasses(t) \/ User(t)
        PROVE  \/ FileKept \/ TimePasses(t) \/ UserSteps(t)
    BY <1>2 DEF User, UserSteps, FileKept
  <1>3. ASSUME NEW p \in Procs,
               Scheduler(p) \/ BackOff(p) \/ Stop(p) \/ StartScheduler(p) \/ Crash(p)
        PROVE  FileKept
    BY <1>3 DEF Scheduler, FileKept
  <1>4. ASSUME NEW w \in Workers, Watchdog(w) \/ Worker(w)
        PROVE  FileKept \/ Claim(w) \/ Check(w) \/ \E more \in BOOLEAN : Finish(w, more)
    BY <1>4 DEF Worker, FileKept
  <1>5. CASE Next
    BY <1>2, <1>3, <1>4, <1>5 DEF Next
  <1> QED BY <1>1, <1>5

LEMMA FileKeptFrame == ASSUME FileKept PROVE task' = task /\ held' = held
  BY DEF FileKept, List, ThreadExit, BackOff, Stop, StartScheduler, Crash, Dispatch, CronRun,
         Watchdog, Work, quiet

\* A worker's record is replaced by one of these.
LEMMA RunUpdates ==
    ASSUME NEW r \in RunState
    PROVE  /\ [r EXCEPT !.cancel = TRUE] \in RunState
           /\ [r EXCEPT !.pc = "work"] \in RunState
           /\ \A f \in BOOLEAN : [r EXCEPT !.pc = "finish", !.failed = f] \in RunState
           /\ \A a \in 0..MaxClaims : [r EXCEPT !.pc = "check", !.attempt = a] \in RunState
  BY DEF RunState

LEMMA FileKeptType ==
    ASSUME TypeOK, FileKept
    PROVE  TypeOK'
  <1>0. /\ run \in [Workers -> RunState] /\ Host \in Procs
        /\ MaxStops \in Nat /\ MaxUserOps \in Nat /\ ops \in 0..MaxUserOps
        /\ stops \in 0..MaxStops /\ listed \in [Procs -> SUBSET Tasks]
        /\ sched \in [Procs -> ThreadState] /\ stopping \in [Procs -> BOOLEAN]
        /\ lost \in SUBSET (0..MaxClaims)
    BY TypeParts, CronAssumption
  <1>1. ASSUME NEW p \in Procs, List(p) \/ BackOff(p) \/ ThreadExit(p) \/ StartScheduler(p)
        PROVE  TypeOK'
    <2>1. listed' \in [Procs -> SUBSET Tasks]
      BY <1>0, <1>1 DEF List, BackOff, ThreadExit, StartScheduler
    <2>2. sched' \in [Procs -> ThreadState]
      BY <1>0, <1>1 DEF List, BackOff, ThreadExit, StartScheduler, ThreadState
    <2>3. stopping' \in [Procs -> BOOLEAN]
      BY <1>0, <1>1 DEF List, BackOff, ThreadExit, StartScheduler
    <2>4. UNCHANGED <<task, run, claims, ops, stops, held, lost, ended>>
      BY <1>1 DEF List, BackOff, ThreadExit, StartScheduler, quiet
    <2> QED BY <2>1, <2>2, <2>3, <2>4, TypeParts, TypePrime
  <1>2. ASSUME NEW p \in Procs, Stop(p)
        PROVE  TypeOK'
    <2>1. stops' \in 0..MaxStops
      BY <1>0, <1>2 DEF Stop
    <2>2. stopping' \in [Procs -> BOOLEAN]
      BY <1>0, <1>2 DEF Stop
    <2>3. run' \in [Workers -> RunState]
      BY <1>0, <1>2, RunUpdates DEF Stop
    <2>4. UNCHANGED <<task, listed, sched, claims, ops, held, lost, ended>>
      BY <1>2 DEF Stop, quiet
    <2> QED BY <2>1, <2>2, <2>3, <2>4, TypeParts, TypePrime
  <1>3. ASSUME NEW p \in Procs, Crash(p)
        PROVE  TypeOK'
    <2>1. stops' \in 0..MaxStops
      BY <1>0, <1>3 DEF Crash
    <2>2. sched' \in [Procs -> ThreadState] /\ stopping' \in [Procs -> BOOLEAN]
      BY <1>0, <1>3 DEF Crash, ThreadState
    <2>3. run' \in [Workers -> RunState]
      BY <1>0, <1>3, IdleType DEF Crash
    <2>4. \A w \in Workers : run[w].attempt \in 0..MaxClaims
      BY <1>0 DEF RunState
    <2>5. lost' \in SUBSET (0..MaxClaims)
      BY <1>0, <1>3, <2>4 DEF Crash
    <2>6. listed' \in [Procs -> SUBSET Tasks]
      BY <1>0, <1>3 DEF Crash
    <2>7. UNCHANGED <<task, claims, ops, held, ended>>
      BY <1>3 DEF Crash
    <2> QED BY <2>1, <2>2, <2>3, <2>5, <2>6, <2>7, TypeParts, TypePrime
  <1>4. ASSUME NEW p \in Procs, NEW t \in Tasks, NEW w \in Workers,
               Dispatch(p, t, w) \/ CronRun(p, t, w)
        PROVE  TypeOK'
    <2>1. listed' \in [Procs -> SUBSET Tasks]
      BY <1>0, <1>4 DEF Dispatch, CronRun
    <2>2. ops' \in 0..MaxUserOps
      BY <1>0, <1>4 DEF Dispatch, CronRun
    <2>3. run' \in [Workers -> RunState]
      <3>1. \/ run' = run
            \/ \E r \in RunState : run' = [run EXCEPT ![w] = r]
        BY <1>4, ClaimType DEF Dispatch, CronRun
      <3> QED BY <1>0, <3>1
    <2>4. UNCHANGED <<task, sched, stopping, claims, stops, held, lost, ended>>
      BY <1>4 DEF Dispatch, CronRun, quiet
    <2> QED BY <2>1, <2>2, <2>3, <2>4, TypeParts, TypePrime
  <1>5. ASSUME NEW w \in Workers, Watchdog(w) \/ Work(w)
        PROVE  TypeOK'
    <2>1. run[w] \in RunState
      BY <1>0
    <2>2. CASE Watchdog(w)
      <3>1. run' \in [Workers -> RunState]
        <4>1. run' = [run EXCEPT ![w] = [run[w] EXCEPT !.cancel = TRUE]]
          BY <2>2 DEF Watchdog
        <4> QED BY <1>0, <2>1, <4>1, RunUpdates
      <3> QED BY <2>2, <3>1, TypeParts, TypePrime DEF Watchdog, quiet
    <2>3. CASE Work(w)
      <3>1. run' \in [Workers -> RunState]
        <4>1. PICK f \in BOOLEAN :
                 run' = [run EXCEPT ![w] = [run[w] EXCEPT !.pc = "finish", !.failed = f]]
          BY <2>3 DEF Work
        <4> QED BY <1>0, <2>1, <4>1, RunUpdates
      <3> QED BY <2>3, <3>1, TypeParts, TypePrime DEF Work, quiet
    <2> QED BY <1>5, <2>2, <2>3
  <1> QED BY <1>1, <1>2, <1>3, <1>4, <1>5 DEF FileKept

LEMMA TypeStep ==
    ASSUME TypeOK, RunsLeft, [Next]_vars
    PROVE  TypeOK'
  <1>0. /\ run \in [Workers -> RunState] /\ task \in [Tasks -> Task]
        /\ \A t \in Tasks : Valid(task[t])
        /\ MaxClaims \in Nat /\ MaxUserOps \in Nat /\ claims \in 0..MaxClaims
        /\ ops \in 0..MaxUserOps /\ held \in SUBSET Tasks /\ ended \in SUBSET Tasks
    BY TypeParts, CronAssumption
  <1>1. CASE UNCHANGED vars
    BY <1>1, TypeParts, TypePrime DEF vars
  <1>2. ASSUME NEW t \in Tasks, TimePasses(t)
        PROVE  TypeOK'
    <2>1. [task[t] EXCEPT !.next = "due"] \in Task
      BY <1>0 DEF Task
    <2>2. Valid([task[t] EXCEPT !.next = "due"])
      BY <1>0, <1>2 DEF Valid, Task, TimePasses
    <2>3. task' = [task EXCEPT ![t] = [task[t] EXCEPT !.next = "due"]]
      BY <1>2 DEF TimePasses
    <2>4. task' \in [Tasks -> Task] /\ \A u \in Tasks : Valid(task'[u])
      BY <2>1, <2>2, <2>3, TaskComputed, WrittenType
    <2> QED BY <1>2, <2>4, TypeParts, TypePrime DEF TimePasses, quiet
  <1>3. ASSUME NEW t \in Tasks, UserSteps(t)
        PROVE  TypeOK'
    <2>1. PICK op \in AllUserOps, new \in Task : UserWrites(t, op, new)
      BY <1>3, UserWrite
    <2>2. task' \in [Tasks -> Task] /\ \A u \in Tasks : Valid(task'[u])
      BY <2>1, TaskComputed, WrittenType DEF UserWrites
    <2>3. ops' \in 0..MaxUserOps
      BY <1>0, <2>1 DEF UserWrites
    <2>4. held' \in SUBSET Tasks /\ ended' \in SUBSET Tasks
      BY <1>0, <2>1 DEF UserWrites
    <2>5. UNCHANGED <<listed, sched, stopping, run, claims, stops, lost>>
      BY <2>1 DEF UserWrites
    <2> QED BY <2>2, <2>3, <2>4, <2>5, TypeParts, TypePrime
  <1>4. CASE Recover
    <2>1. \A t \in Tasks : task[t].status = "running" =>
             Interrupted(task[t]) \in Task /\ Valid(Interrupted(task[t]))
      <3> SUFFICES ASSUME NEW r \in Task, Valid(r), r.runs < MaxRuns
                   PROVE  Interrupted(r) \in Task /\ Valid(Interrupted(r))
        BY <1>0 DEF RunsLeft
      <3>1. Interrupted(r) \in Task
        BY DEF Interrupted, Task, Status
      <3>2. Valid(Interrupted(r))
        BY CronAssumption DEF Interrupted, Task, Valid
      <3> QED BY <3>1, <3>2
    <2>2. task' \in [Tasks -> Task] /\ \A u \in Tasks : Valid(task'[u])
      BY <1>0, <1>4, <2>1 DEF Recover
    <2>3. sched' \in [Procs -> ThreadState]
      BY <1>4, TypeParts DEF Recover, ThreadState
    <2>4. held' \in SUBSET Tasks
      BY <1>0, <1>4 DEF Recover
    <2>5. UNCHANGED <<listed, stopping, run, claims, ops, stops, lost, ended>>
      BY <1>4 DEF Recover
    <2> QED BY <2>2, <2>3, <2>4, <2>5, TypeParts, TypePrime
  <1>5. ASSUME NEW w \in Workers, Claim(w)
        PROVE  TypeOK'
    <2> DEFINE t == run[w].task
    <2>0. t \in Tasks /\ task[t] \in Task /\ run[w] \in RunState
      BY <1>0 DEF RunState
    <2>1. UNCHANGED <<listed, sched, stopping, ops, stops, held, lost, ended>>
      BY <1>5 DEF Claim, quiet
    <2>2. CASE task[t].status = "enabled"
      <3> DEFINE new == [task[t] EXCEPT !.status = "running", !.attempt = claims + 1]
                 its == [run[w] EXCEPT !.pc = "check", !.attempt = claims + 1]
      <3>1. claims' \in 0..MaxClaims /\ claims' = claims + 1
        BY <1>0, <1>5, <2>2 DEF Claim
      <3>2. new \in Task
        BY <2>0, <3>1 DEF Task, Status
      <3>3. Valid(new)
        BY <1>0, <2>0, <2>2 DEF Valid, Task
      <3>4. its \in RunState
        BY <2>0, <3>1, RunUpdates
      <3>5. task' = [task EXCEPT ![t] = new] /\ run' = [run EXCEPT ![w] = its]
        BY <1>0, <1>5, <2>0, <2>2 DEF Claim
      <3> HIDE DEF new, its, t
      <3>6. task' \in [Tasks -> Task] /\ \A u \in Tasks : Valid(task'[u])
        BY <2>0, <3>2, <3>3, <3>5, TaskComputed, WrittenType
      <3>7. run' \in [Workers -> RunState]
        BY <1>0, <3>4, <3>5
      <3> QED BY <2>1, <3>1, <3>6, <3>7, TypeParts, TypePrime
    <2>3. CASE task[t].status # "enabled"
      <3>1. UNCHANGED <<task, claims>> /\ run' = [run EXCEPT ![w] = Idle]
        BY <1>5, <2>3 DEF Claim
      <3> QED BY <1>0, <2>1, <3>1, IdleType, TypeParts, TypePrime
    <2> QED BY <2>2, <2>3
  <1>6. ASSUME NEW w \in Workers, Check(w)
        PROVE  TypeOK'
    <2>1. task' = task \/ task' = Reverted(w)
      BY <1>6 DEF Check
    <2>2. task' \in [Tasks -> Task] /\ \A u \in Tasks : Valid(task'[u])
      BY <1>0, <2>1, RevertedType
    <2>3. run[w] \in RunState
      BY <1>0
    <2>4. run' \in {[run EXCEPT ![w] = Idle], [run EXCEPT ![w] = [run[w] EXCEPT !.pc = "work"]]}
      BY <1>6 DEF Check
    <2>5. run' \in [Workers -> RunState]
      BY <1>0, <2>3, <2>4, IdleType, RunUpdates
    <2> QED BY <1>6, <2>2, <2>5, TypeParts, TypePrime DEF Check, quiet
  <1>7. ASSUME NEW w \in Workers, NEW more \in BOOLEAN, Finish(w, more)
        PROVE  TypeOK'
    <2> DEFINE t == run[w].task
    <2>1. t \in Tasks
      BY <1>0 DEF RunState
    <2>2. task' = task \/ task' = Updated(t, Finished(t, w, more))
      BY <1>7 DEF Finish
    <2>3. task' \in [Tasks -> Task] /\ \A u \in Tasks : Valid(task'[u])
      BY <1>0, <2>1, <2>2, FinishedComputed, UpdatedType
    <2>4. run' = [run EXCEPT ![w] = Idle]
      BY <1>7 DEF Finish
    <2>5. run' \in [Workers -> RunState]
      BY <1>0, <2>4, IdleType
    <2> QED BY <1>7, <2>3, <2>5, TypeParts, TypePrime DEF Finish, quiet
  <1> QED BY <1>1, <1>2, <1>3, <1>4, <1>5, <1>6, <1>7, FileKeptType, NextCases
-----------------------------------------------------------------------------
(* Running tasks.                                                          *)

\* Reverting a claim and every way to finish a running task is written.
LEMMA EndWritten ==
    ASSUME TypeOK, RunsLeft, NEW t \in Tasks, task[t].status = "running"
    PROVE  /\ \A w \in Workers : run[w].task = t => Reverted(w)[t].status = "enabled"
           /\ \A w \in Workers, more \in BOOLEAN :
                 LET f == Updated(t, Finished(t, w, more))[t]
                 IN  f = Finished(t, w, more) /\ f.status # "running"
  <1>0. /\ task[t] \in Task /\ Valid(task[t]) /\ task \in [Tasks -> Task]
        /\ task[t].runs < MaxRuns /\ MaxRuns \in Nat \ {0} /\ Present(t)
    BY TypeParts, CronAssumption DEF RunsLeft, Present
  <1>1. ASSUME NEW w \in Workers, run[w].task = t
        PROVE  Reverted(w)[t].status = "enabled"
    <2>1. Valid([task[t] EXCEPT !.status = "enabled"])
      BY <1>0 DEF Valid, Task
    <2>2. [task[t] EXCEPT !.status = "enabled"].status = "enabled"
      BY <1>0 DEF Task
    <2> QED BY <1>0, <1>1, <2>1, <2>2 DEF Reverted, Updated
  <1>2. ASSUME NEW w \in Workers, NEW more \in BOOLEAN
        PROVE  /\ Updated(t, Finished(t, w, more))[t] = Finished(t, w, more)
               /\ Finished(t, w, more).status # "running"
    <2> DEFINE cur == task[t]
    <2>0. cur \in Task /\ Valid(cur) /\ cur.status = "running" /\ cur.runs < MaxRuns
      BY <1>0
    <2> HIDE DEF cur
    <2>1. LET new == [cur EXCEPT !.status = "cancelled", !.why = "stopped", !.next = "none"]
          IN  Valid(new) /\ new.status # "running"
      BY <1>0, <2>0 DEF Valid, Task
    <2>4. LET new == [cur EXCEPT !.status = "failed"]
          IN  Valid(new) /\ new.status # "running"
      BY <1>0, <2>0 DEF Valid, Task
    <2>5. LET new == [cur EXCEPT !.runs = @ + 1, !.status = "completed", !.next = "none"]
          IN  Valid(new) /\ new.status # "running"
      BY <1>0, <2>0 DEF Valid, Task
    <2>2. ASSUME cur.runs + 1 < MaxRuns
          PROVE  LET new == [cur EXCEPT !.runs = @ + 1, !.status = "enabled", !.next = "later"]
                 IN  Valid(new) /\ new.status # "running"
      BY <1>0, <2>0, <2>2 DEF Valid, Task
    <2>3. cur.runs + 1 >= MaxRuns \/ cur.runs + 1 < MaxRuns
      BY <1>0, <2>0 DEF Task
    <2>6. Valid(Finished(t, w, more)) /\ Finished(t, w, more).status # "running"
      BY <2>1, <2>2, <2>3, <2>4, <2>5 DEF Finished, cur
    <2> QED BY <1>0, <2>6 DEF Updated
  <1> QED BY <1>1, <1>2

\* Writing about one task leaves the others alone.
LEMMA UpdatedOthers ==
    ASSUME TypeOK, NEW t \in Tasks, NEW new, NEW u \in Tasks, u # t
    PROVE  Updated(t, new)[u] = task[u]
  BY TypeParts DEF Updated

\* What a step may do about a task that says "running".
LEMMA RunningStep ==
    ASSUME TypeOK, RunsLeft, [Next]_vars, NEW t \in Tasks, task'[t].status = "running"
    PROVE  /\ \/ task[t].status = "running" /\ task'[t].attempt \in {0, task[t].attempt}
              \/ \E w \in Workers : /\ Claim(w) /\ run[w].task = t
                                    /\ task[t].status = "enabled"
                                    /\ task'[t].attempt = claims + 1
           /\ task'[t].runs = task[t].runs
  <1>0. task \in [Tasks -> Task] /\ run \in [Workers -> RunState]
    BY TypeParts
  <1>1. CASE task' = task
    BY <1>1
  <1>2. ASSUME NEW u \in Tasks, TimePasses(u)
        PROVE  task[t].status = "running" /\ task'[t].attempt = task[t].attempt
               /\ task'[t].runs = task[t].runs
    BY <1>0, <1>2 DEF TimePasses, Task
  <1>3. ASSUME NEW u \in Tasks, UserSteps(u)
        PROVE  task[t].status = "running" /\ task'[t].attempt \in {0, task[t].attempt}
               /\ task'[t].runs = task[t].runs
    <2>1. PICK op \in AllUserOps, new \in Task :
             /\ UserWrites(u, op, new)
             /\ new.status = "running" => task[u].status = "running" /\ new.attempt = 0
             /\ new.runs = task[u].runs
      BY <1>3, UserWrite
    <2>2. task' = [task EXCEPT ![u] = new]
      BY <2>1 DEF UserWrites
    <2> QED BY <1>0, <2>1, <2>2
  <1>4. CASE Recover
    <2>1. task'[t] = task[t] \/ task'[t] = Interrupted(task[t])
      BY <1>4 DEF Recover
    <2>2. Interrupted(task[t]).status # "running"
      BY <1>0 DEF Interrupted, Task
    <2> QED BY <2>1, <2>2
  <1>5. ASSUME NEW w \in Workers, Claim(w), task' # task
        PROVE  \/ task'[t] = task[t]
               \/ /\ run[w].task = t /\ task[t].status = "enabled"
                  /\ task'[t].attempt = claims + 1 /\ task'[t].runs = task[t].runs
    BY <1>0, <1>5 DEF Claim, Task
  <1>6. ASSUME NEW w \in Workers, Check(w), task' # task
        PROVE  task'[t] = task[t]
    <2>1. task' = Reverted(w) /\ run[w].task \in Tasks
      BY <1>0, <1>6 DEF Check, RunState
    <2>2. CASE run[w].task # t
      BY <2>1, <2>2, UpdatedOthers DEF Reverted
    <2>3. CASE run[w].task = t
      <3>1. CASE task[t].status = "running"
        BY <2>1, <2>3, <3>1, EndWritten
      <3>2. CASE task[t].status # "running"
        <4>1. [task[t] EXCEPT !.status = "enabled"].status # "running"
          BY <1>0 DEF Task
        <4> QED BY <1>0, <2>1, <2>3, <4>1 DEF Reverted, Updated
      <3> QED BY <3>1, <3>2
    <2> QED BY <2>2, <2>3
  <1>7. ASSUME NEW w \in Workers, NEW more \in BOOLEAN, Finish(w, more), task' # task
        PROVE  task'[t] = task[t]
    <2>1. /\ task' = Updated(run[w].task, Finished(run[w].task, w, more))
          /\ run[w].task \in Tasks
      BY <1>0, <1>7 DEF Finish, RunState
    <2>2. CASE run[w].task # t
      BY <2>1, <2>2, UpdatedOthers
    <2>3. CASE run[w].task = t
      <3>1. CASE task[t].status = "running"
        BY <2>1, <2>3, <3>1, EndWritten
      <3>2. CASE task[t].status # "running"
        <4>1. Finished(t, w, more).status # "running"
          BY <1>0, <3>2 DEF Finished, Task
        <4> QED BY <1>0, <2>1, <2>3, <4>1 DEF Updated
      <3> QED BY <3>1, <3>2
    <2> QED BY <2>2, <2>3
  <1>8. UNCHANGED vars \/ FileKept => task' = task
    BY FileKeptFrame DEF vars
  <1> QED BY <1>1, <1>2, <1>3, <1>4, <1>5, <1>6, <1>7, <1>8, NextCases
LEMMA RunsLeftStep ==
    ASSUME TypeOK, RunsLeft, [Next]_vars
    PROVE  RunsLeft'
  <1> SUFFICES ASSUME NEW t \in Tasks, task'[t].status = "running"
               PROVE  task'[t].runs < MaxRuns
    BY DEF RunsLeft
  <1>1. task'[t].runs = task[t].runs
    BY RunningStep
  <1>2. CASE task[t].status = "running"
    BY <1>1, <1>2 DEF RunsLeft
  <1>3. CASE task[t].status = "enabled"
    <2>1. Valid(task[t]) /\ task[t] \in Task /\ MaxRuns \in Nat
      BY TypeParts, CronAssumption
    <2> QED BY <1>1, <1>3, <2>1 DEF Valid, Task
  <1> QED BY <1>2, <1>3, RunningStep

\* What a step may do to the worker that executes a task.
LEMMA ExecutingStep ==
    ASSUME TypeOK, [Next]_vars, NEW w \in Workers, Executing(w)
    PROVE  \/ Executing(w)' /\ run'[w].task = run[w].task /\ run'[w].attempt = run[w].attempt
           \/ lost' = lost \cup {run[v].attempt : v \in {v \in Workers : run[v].pc # "idle"
                                                            /\ run[v].proc = run[w].proc}}
           \/ Check(w) /\ task' = Reverted(w)
           \/ \E more \in BOOLEAN : Finish(w, more)
  <1>0. run \in [Workers -> RunState]
    BY TypeParts
  <1> USE DEF Executing
  <1>1. CASE run' = run
    BY <1>1
  <1>2. CASE FileKept
    <2>1. ASSUME NEW p \in Procs,
                 List(p) \/ ThreadExit(p) \/ BackOff(p) \/ StartScheduler(p)
          PROVE  run' = run
      BY <2>1 DEF List, ThreadExit, BackOff, StartScheduler
    <2>2. ASSUME NEW p \in Procs, Stop(p)
          PROVE  Executing(w)' /\ run'[w].task = run[w].task /\ run'[w].attempt = run[w].attempt
      BY <1>0, <2>2 DEF Stop, RunState
    <2>3. ASSUME NEW p \in Procs, Crash(p)
          PROVE  \/ run'[w] = run[w]
                 \/ lost' = lost \cup {run[v].attempt : v \in {v \in Workers : run[v].pc # "idle"
                                                                  /\ run[v].proc = run[w].proc}}
      BY <1>0, <2>3 DEF Crash
    <2>4. ASSUME NEW p \in Procs, NEW t \in Tasks, NEW v \in Workers,
                 Dispatch(p, t, v) \/ CronRun(p, t, v)
          PROVE  run'[w] = run[w]
      BY <1>0, <2>4 DEF Dispatch, CronRun
    <2>5. ASSUME NEW v \in Workers, Watchdog(v) \/ Work(v)
          PROVE  Executing(w)' /\ run'[w].task = run[w].task /\ run'[w].attempt = run[w].attempt
      BY <1>0, <2>5 DEF Watchdog, Work, RunState
    <2> QED BY <1>1, <1>2, <2>1, <2>2, <2>3, <2>4, <2>5 DEF FileKept
  <1>3. ASSUME NEW t \in Tasks, TimePasses(t) \/ UserSteps(t)
        PROVE  run' = run
    <2>1. CASE TimePasses(t)
      BY <2>1 DEF TimePasses
    <2>2. CASE UserSteps(t)
      BY <2>2, UserWrite DEF UserWrites
    <2> QED BY <1>3, <2>1, <2>2
  <1>4. ASSUME NEW v \in Workers, v # w,
               Claim(v) \/ Check(v) \/ \E more \in BOOLEAN : Finish(v, more)
        PROVE  run'[w] = run[w]
    BY <1>0, <1>4 DEF Claim, Check, Finish
  <1>5. ~Claim(w)
    BY DEF Claim
  <1>6. CASE Check(w)
    BY <1>0, <1>6 DEF Check, RunState
  <1>7. Recover \/ UNCHANGED vars => run' = run
    BY DEF Recover, vars
  <1> QED BY <1>1, <1>2, <1>3, <1>4, <1>5, <1>6, <1>7, NextCases

LEMMA RunningIsExecutedStep ==
    ASSUME TypeOK, RunsLeft, RunningIsExecuted, [Next]_vars
    PROVE  RunningIsExecuted'
  <1> SUFFICES ASSUME NEW t \in Tasks, task'[t].status = "running",
                      task'[t].attempt \notin lost' \cup {0}
               PROVE  \E w \in Workers : /\ Executing(w)' /\ run'[w].task = t
                                         /\ run'[w].attempt = task'[t].attempt
    BY DEF RunningIsExecuted, Executing
  <1>0. run \in [Workers -> RunState]
    BY TypeParts
  <1>1. CASE \E w \in Workers : /\ Claim(w) /\ run[w].task = t /\ task[t].status = "enabled"
                                /\ task'[t].attempt = claims + 1
    <2>1. PICK w \in Workers : /\ Claim(w) /\ run[w].task = t /\ task[t].status = "enabled"
                               /\ task'[t].attempt = claims + 1
      BY <1>1
    <2>2. run'[w] = [run[w] EXCEPT !.pc = "check", !.attempt = claims + 1]
      BY <1>0, <2>1 DEF Claim
    <2>3. run'[w].pc = "check" /\ run'[w].task = t /\ run'[w].attempt = claims + 1
      BY <1>0, <2>1, <2>2 DEF RunState
    <2> QED BY <2>1, <2>3 DEF Executing
  <1>2. CASE task[t].status = "running" /\ task'[t].attempt \in {0, task[t].attempt}
    <2>1. task'[t].attempt = task[t].attempt
      BY <1>2
    <2>2. lost \subseteq lost'
      <3>1. UNCHANGED vars \/ Recover => lost' = lost
        BY DEF vars, Recover
      <3>2. \A u \in Tasks : TimePasses(u) => lost' = lost
        BY DEF TimePasses, quiet
      <3>3. \A u \in Tasks : UserSteps(u) => lost' = lost
        BY UserWrite DEF UserWrites
      <3>4. \A v \in Workers : Claim(v) \/ Check(v) \/ (\E more \in BOOLEAN : Finish(v, more))
                               => lost' = lost
        BY DEF Claim, Check, Finish, quiet
      <3>5. FileKept => lost \subseteq lost'
        BY DEF FileKept, List, ThreadExit, BackOff, Stop, StartScheduler, Crash, Dispatch,
               CronRun, Watchdog, Work, quiet
      <3> QED BY <3>1, <3>2, <3>3, <3>4, <3>5, NextCases
    <2>3. PICK w \in Workers : /\ Executing(w) /\ run[w].task = t
                               /\ run[w].attempt = task[t].attempt
      BY <1>2, <2>1, <2>2 DEF RunningIsExecuted
    <2>4. CASE lost' = lost \cup {run[v].attempt : v \in {v \in Workers : run[v].pc # "idle"
                                                            /\ run[v].proc = run[w].proc}}
      BY <2>1, <2>3, <2>4 DEF Executing
    <2>5. ~(Check(w) /\ task' = Reverted(w))
      BY <1>2, <2>3, EndWritten
    <2>6. \A more \in BOOLEAN : ~Finish(w, more)
      <3> SUFFICES ASSUME NEW more \in BOOLEAN, Finish(w, more)
                   PROVE  FALSE
        OBVIOUS
      <3>1. task' = Updated(t, Finished(t, w, more))
        BY <2>3 DEF Finish
      <3> QED BY <1>2, <3>1, EndWritten
    <2> QED BY <2>1, <2>3, <2>4, <2>5, <2>6, ExecutingStep
  <1> QED BY <1>1, <1>2, RunningStep
-----------------------------------------------------------------------------
(* Slots.                                                                  *)
HandsOut(p, t, w) == Dispatch(p, t, w) \/ CronRun(p, t, w)

\* Unless a task is handed to it, a worker that is busy was busy before with
\* the same task, in the same process, and is not told to go on.
LEMMA BusyStep ==
    ASSUME TypeOK, [Next]_vars, NEW w \in Workers, run'[w].pc # "idle",
           ~ \E p \in Procs, t \in Tasks, v \in Workers : HandsOut(p, t, v)
    PROVE  /\ Busy(w) /\ run'[w].task = run[w].task /\ run'[w].proc = run[w].proc
           /\ run'[w].manual = run[w].manual
           /\ run[w].cancel => run'[w].cancel
  <1>0. run \in [Workers -> RunState] /\ run[w] \in RunState
    BY TypeParts
  <1> USE DEF Busy
  <1>1. CASE run'[w] = run[w]
    BY <1>1
  <1>2. CASE FileKept
    <2>1. ASSUME NEW p \in Procs,
                 List(p) \/ ThreadExit(p) \/ BackOff(p) \/ StartScheduler(p)
          PROVE  run' = run
      BY <2>1 DEF List, ThreadExit, BackOff, StartScheduler
    <2>2. ASSUME NEW p \in Procs, Stop(p)
          PROVE  run'[w] \in {run[w], [run[w] EXCEPT !.cancel = TRUE]}
      BY <2>2 DEF Stop
    <2>3. ASSUME NEW p \in Procs, Crash(p)
          PROVE  run'[w] = run[w]
      BY <2>3, IdleType DEF Crash
    <2>4. ASSUME NEW v \in Workers, Watchdog(v) \/ Work(v)
          PROVE  \/ run'[w] \in {run[w], [run[w] EXCEPT !.cancel = TRUE]}
                 \/ /\ run[w].pc = "work"
                    /\ \E f \in BOOLEAN : run'[w] = [run[w] EXCEPT !.pc = "finish", !.failed = f]
      BY <1>0, <2>4 DEF Watchdog, Work
    <2>5. run'[w] = [run[w] EXCEPT !.cancel = TRUE] =>
             /\ run'[w].pc = run[w].pc /\ run'[w].task = run[w].task
             /\ run'[w].proc = run[w].proc /\ run'[w].manual = run[w].manual /\ run'[w].cancel
      BY <1>0 DEF RunState
    <2>6. ASSUME NEW f \in BOOLEAN, run'[w] = [run[w] EXCEPT !.pc = "finish", !.failed = f]
          PROVE  /\ run'[w].task = run[w].task /\ run'[w].proc = run[w].proc
                 /\ run'[w].manual = run[w].manual /\ run'[w].cancel = run[w].cancel
      BY <1>0, <2>6 DEF RunState
    <2> QED BY <1>1, <1>2, <2>1, <2>2, <2>3, <2>4, <2>5, <2>6 DEF FileKept, HandsOut
  <1>3. ASSUME NEW t \in Tasks, TimePasses(t) \/ UserSteps(t)
        PROVE  run' = run
    <2>1. CASE TimePasses(t)
      BY <2>1 DEF TimePasses
    <2>2. CASE UserSteps(t)
      BY <2>2, UserWrite DEF UserWrites
    <2> QED BY <1>3, <2>1, <2>2
  <1>4. ASSUME NEW v \in Workers,
               Claim(v) \/ Check(v) \/ \E more \in BOOLEAN : Finish(v, more)
        PROVE  \/ run'[w] = run[w]
               \/ /\ Busy(w)
                  /\ \/ run'[w] = [run[w] EXCEPT !.pc = "work"]
                     \/ run'[w] = [run[w] EXCEPT !.pc = "check", !.attempt = claims + 1]
    BY <1>0, <1>4, IdleType DEF Claim, Check, Finish
  <1>5. \A pc, a : \/ run'[w] = [run[w] EXCEPT !.pc = pc]
                   \/ run'[w] = [run[w] EXCEPT !.pc = pc, !.attempt = a]
           => /\ run'[w].task = run[w].task /\ run'[w].proc = run[w].proc
              /\ run'[w].manual = run[w].manual /\ run'[w].cancel = run[w].cancel
    BY <1>0 DEF RunState
  <1>6. Recover \/ UNCHANGED vars => run' = run
    BY DEF Recover, vars
  <1> QED BY <1>1, <1>2, <1>3, <1>4, <1>5, <1>6, NextCases

\* A worker that is handed a task.
LEMMA HandedOut ==
    ASSUME TypeOK, NEW p \in Procs, NEW t \in Tasks, NEW w \in Workers, HandsOut(p, t, w)
    PROVE  \/ run' = run
           \/ /\ run[w].pc = "idle" /\ \A v \in Workers : v # w => run'[v] = run[v]
              /\ run'[w].pc = "claim" /\ run'[w].task = t /\ run'[w].proc = p
              /\ \/ run'[w].manual /\ p # Host
                 \/ /\ ~run'[w].manual /\ sched[p] = "on" /\ ~stopping[p]
                    /\ \A v \in Entries(p) : run[v].task # t
                    /\ ~(Cardinality(Entries(p)) >= MaxConcurrent)
  <1>0. run \in [Workers -> RunState] /\ Idle \in RunState
    BY TypeParts, IdleType
  <1>1. CASE CronRun(p, t, w)
    <2>1. run[w].pc = "idle" /\ p # Host
          /\ run' = [run EXCEPT ![w] = [Idle EXCEPT !.pc = "claim", !.task = t, !.manual = TRUE,
                                                    !.proc = p]]
      BY <1>1 DEF CronRun
    <2> QED BY <1>0, <2>1 DEF RunState
  <1>2. CASE Dispatch(p, t, w) /\ run' # run
    <2>1. /\ run[w].pc = "idle" /\ sched[p] = "on" /\ ~stopping[p]
          /\ \A v \in Entries(p) : run[v].task # t
          /\ ~(Cardinality(Entries(p)) >= MaxConcurrent)
          /\ run' = [run EXCEPT ![w] = [Idle EXCEPT !.pc = "claim", !.task = t, !.proc = p]]
      BY <1>2 DEF Dispatch
    <2>2. ~Idle.manual
      BY DEF Idle
    <2> QED BY <1>0, <2>1, <2>2 DEF RunState
  <1> QED BY <1>1, <1>2 DEF HandsOut

LEMMA ManualElsewhereStep ==
    ASSUME TypeOK, ManualElsewhere, [Next]_vars
    PROVE  ManualElsewhere'
  <1> SUFFICES ASSUME NEW w \in Workers, run'[w].pc # "idle", run'[w].manual
               PROVE  run'[w].proc # Host
    BY DEF ManualElsewhere, Busy
  <1>1. CASE \E p \in Procs, t \in Tasks, v \in Workers : HandsOut(p, t, v)
    BY <1>1, HandedOut DEF ManualElsewhere, Busy
  <1>2. CASE ~ \E p \in Procs, t \in Tasks, v \in Workers : HandsOut(p, t, v)
    BY <1>2, BusyStep DEF ManualElsewhere
  <1> QED BY <1>1, <1>2

SlotsInv == FiniteSlots /\ SlotsHeld

LEMMA SlotsFacts ==
    SlotsInv <=> /\ IsFiniteSet(HostWorkers) /\ Cardinality(HostWorkers) <= MaxConcurrent
                 /\ \A v, w \in HostWorkers : run[v].task = run[w].task => v = w
  BY DEF SlotsInv, FiniteSlots, SlotsHeld, HostWorkers, Busy

LEMMA SlotsFactsNext ==
    ASSUME NEW its, its = HostWorkers', IsFiniteSet(its), Cardinality(its) <= MaxConcurrent,
           \A v, w \in its : run'[v].task = run'[w].task => v = w
    PROVE  SlotsInv'
  <1>1. SlotsHeld'
    BY DEF SlotsHeld, HostWorkers, Busy
  <1> QED BY <1>1 DEF SlotsInv, FiniteSlots

LEMMA FewerSlots ==
    ASSUME SlotsInv, HostWorkers' \subseteq HostWorkers,
           \A w \in HostWorkers' : run'[w].task = run[w].task
    PROVE  SlotsInv'
  <1> DEFINE its == HostWorkers'
  <1>1. IsFiniteSet(its) /\ Cardinality(its) <= Cardinality(HostWorkers)
    BY SlotsFacts, FS_Subset
  <1>2. Cardinality(its) \in Nat /\ Cardinality(HostWorkers) \in Nat
    BY <1>1, SlotsFacts, FS_CardinalityType
  <1>3. Cardinality(its) <= MaxConcurrent
    BY <1>1, <1>2, SlotsFacts, CronAssumption
  <1>4. \A v, w \in its : run'[v].task = run'[w].task => v = w
    BY SlotsFacts
  <1> HIDE DEF its
  <1>5. its = HostWorkers'
    BY DEF its
  <1> QED BY <1>1, <1>3, <1>4, <1>5, SlotsFactsNext

LEMMA SlotsStep ==
    ASSUME TypeOK, ManualElsewhere, SlotsInv, [Next]_vars
    PROVE  SlotsInv'
  <1>0. Host \in Procs /\ MaxConcurrent \in Nat
    BY CronAssumption
  <1>1. CASE ~ \E p \in Procs, t \in Tasks, v \in Workers : HandsOut(p, t, v)
    <2>1. /\ HostWorkers' \subseteq HostWorkers
          /\ \A w \in HostWorkers' : run'[w].task = run[w].task
      BY <1>1, BusyStep DEF HostWorkers, Busy
    <2> QED BY <2>1, FewerSlots
  <1>2. CASE run' = run
    BY <1>2 DEF SlotsInv, FiniteSlots, SlotsHeld, HostWorkers, Busy
  <1>3. ASSUME NEW p \in Procs, NEW t \in Tasks, NEW w \in Workers, HandsOut(p, t, w), run' # run
        PROVE  SlotsInv'
    <2>1. /\ run[w].pc = "idle" /\ \A v \in Workers : v # w => run'[v] = run[v]
          /\ run'[w].pc = "claim" /\ run'[w].task = t /\ run'[w].proc = p
      BY <1>3, HandedOut
    <2>2. CASE p # Host
      <3>1. /\ HostWorkers' \subseteq HostWorkers
            /\ \A v \in HostWorkers' : run'[v].task = run[v].task
        BY <2>1, <2>2 DEF HostWorkers, Busy
      <3> QED BY <3>1, FewerSlots
    <2>3. CASE p = Host
      <3> DEFINE its == HostWorkers \cup {w}
      <3>1. Entries(Host) = HostWorkers
        BY DEF Entries, HostWorkers, ManualElsewhere, Busy
      <3>2. /\ \A v \in HostWorkers : run[v].task # t
            /\ ~(Cardinality(HostWorkers) >= MaxConcurrent)
        BY <1>3, <2>3, <3>1, HandedOut
      <3>3. w \notin HostWorkers /\ HostWorkers \subseteq Workers
        BY <2>1 DEF HostWorkers, Busy
      <3>4. IsFiniteSet(its) /\ Cardinality(its) = Cardinality(HostWorkers) + 1
        BY <3>3, SlotsFacts, FS_AddElement
      <3>5. Cardinality(HostWorkers) \in Nat
        BY SlotsFacts, FS_CardinalityType
      <3>6. Cardinality(its) <= MaxConcurrent
        BY <1>0, <3>2, <3>4, <3>5
      <3>7. its = HostWorkers'
        BY <2>1, <2>3 DEF HostWorkers, Busy
      <3>8. \A v \in HostWorkers : run'[v] = run[v]
        BY <2>1, <3>3
      <3>9. \A v, x \in its : run'[v].task = run'[x].task => v = x
        BY <2>1, <3>2, <3>8, SlotsFacts
      <3> HIDE DEF its
      <3> QED BY <3>4, <3>6, <3>7, <3>9, SlotsFactsNext
    <2> QED BY <2>2, <2>3
  <1> QED BY <1>1, <1>2, <1>3
-----------------------------------------------------------------------------
(* Interrupted tasks.                                                      *)

LEMMA OutlivedStep ==
    ASSUME TypeOK, ManualElsewhere, OutlivedAreCancelled, [Next]_vars
    PROVE  OutlivedAreCancelled'
  <1>0. /\ Host \in Procs /\ sched \in [Procs -> ThreadState] /\ run \in [Workers -> RunState]
        /\ stopping \in [Procs -> BOOLEAN]
    BY CronAssumption, TypeParts
  <1> SUFFICES ASSUME sched'[Host] # "on" \/ stopping'[Host],
                      NEW w \in Workers, run'[w].pc # "idle", run'[w].proc = Host
               PROVE  run'[w].cancel
    BY DEF OutlivedAreCancelled, HostWorkers, Busy
  <1>1. CASE \E p \in Procs, t \in Tasks, v \in Workers : HandsOut(p, t, v)
    <2>1. PICK p \in Procs, t \in Tasks, v \in Workers : HandsOut(p, t, v)
      BY <1>1
    <2>2. UNCHANGED <<sched, stopping>>
      BY <2>1 DEF HandsOut, Dispatch, CronRun
    <2>3. CASE run' = run
      BY <2>2, <2>3 DEF OutlivedAreCancelled, HostWorkers, Busy
    <2>4. CASE run' # run
      <3>1. w # v \/ p # Host
        BY <2>1, <2>2, <2>4, HandedOut
      <3>2. run'[w] = run[w]
        BY <2>1, <2>4, <3>1, HandedOut
      <3> QED BY <2>2, <3>2 DEF OutlivedAreCancelled, HostWorkers, Busy
    <2> QED BY <2>3, <2>4
  <1>2. CASE ~ \E p \in Procs, t \in Tasks, v \in Workers : HandsOut(p, t, v)
    <2>1. /\ Busy(w) /\ run[w].proc = Host /\ run'[w].manual = run[w].manual
          /\ run[w].cancel => run'[w].cancel
      BY <1>2, BusyStep
    <2>2. ~run[w].manual
      BY <2>1 DEF ManualElsewhere
    <2>3. CASE sched[Host] # "on" \/ stopping[Host]
      BY <2>1, <2>3 DEF OutlivedAreCancelled, HostWorkers
    <2>4. CASE Stop(Host)
      <3>1. w \in Entries(Host)
        BY <2>1, <2>2 DEF Entries, Busy
      <3>2. run'[w] = [run[w] EXCEPT !.cancel = TRUE]
        BY <2>4, <3>1 DEF Stop
      <3> QED BY <1>0, <3>2 DEF RunState
    <2>5. CASE Crash(Host)
      <3>1. run'[w] = Idle
        BY <2>1, <2>5 DEF Crash, Busy
      <3> QED BY <3>1, IdleType
    <2>6. CASE sched[Host] = "on" /\ ~stopping[Host] /\ ~Stop(Host) /\ ~Crash(Host)
      <3>1. CASE FileKept
        <4>1. \A p \in Procs : ThreadExit(p) => p # Host
          BY <2>6 DEF ThreadExit
        <4>2. \A p \in Procs : Stop(p) \/ Crash(p) => p # Host
          BY <2>6
        <4>3. \A p \in Procs : List(p) \/ ThreadExit(p) \/ BackOff(p) \/ Stop(p) \/ Crash(p)
                               => sched'[Host] = sched[Host] /\ stopping'[Host] = stopping[Host]
          BY <1>0, <4>1, <4>2 DEF List, ThreadExit, BackOff, Stop, Crash
        <4>4. \A p \in Procs : StartScheduler(p) =>
                 p # Host /\ sched'[Host] = sched[Host] /\ stopping'[Host] = stopping[Host]
          BY <1>0, <2>6 DEF StartScheduler
        <4>5. \A v \in Workers : Watchdog(v) \/ Work(v) => UNCHANGED <<sched, stopping>>
          BY DEF Watchdog, Work
        <4> QED BY <1>2, <2>6, <3>1, <4>3, <4>4, <4>5 DEF FileKept, HandsOut
      <3>2. ~Recover
        BY <2>6 DEF Recover
      <3>3. \A t \in Tasks : TimePasses(t) => UNCHANGED <<sched, stopping>>
        BY DEF TimePasses
      <3>4. \A t \in Tasks : UserSteps(t) => UNCHANGED <<sched, stopping>>
        BY UserWrite DEF UserWrites
      <3>5. \A v \in Workers : Claim(v) \/ Check(v) \/ (\E more \in BOOLEAN : Finish(v, more))
                               => UNCHANGED <<sched, stopping>>
        BY DEF Claim, Check, Finish
      <3>6. UNCHANGED vars => UNCHANGED <<sched, stopping>>
        BY DEF vars
      <3> QED BY <2>6, <3>1, <3>2, <3>3, <3>4, <3>5, <3>6, NextCases
    <2> QED BY <2>3, <2>4, <2>5, <2>6
  <1> QED BY <1>1, <1>2

\* An interrupted task that nobody enables is at rest after a step.
Rests(t) == /\ task[t].status # "enabled"
            /\ \A w \in Workers : Executing(w) /\ run[w].task = t =>
                   run[w].pc # "check" /\ run[w].cancel

\* Recovery interrupts what nothing executes, but for workers that outlive
\* their scheduler and are past the check.
LEMMA RecoverRests ==
    ASSUME TypeOK, OutlivedAreCancelled, HeldRests, Recover, NEW t \in held'
    PROVE  Rests(t)'
  <1>0. /\ run \in [Workers -> RunState] /\ task \in [Tasks -> Task]
        /\ held \in SUBSET Tasks /\ run' = run /\ sched[Host] # "on"
    BY TypeParts DEF Recover
  <1>1. t \in Tasks /\ task'[t] \in {task[t], Interrupted(task[t])}
    BY <1>0 DEF Recover
  <1>2. Interrupted(task[t]).status = "paused"
    BY <1>0, <1>1 DEF Interrupted, Task
  <1>3. CASE t \in held
    BY <1>0, <1>1, <1>2, <1>3 DEF HeldRests, Rests, Executing
  <1>4. CASE t \notin held
    <2>1. /\ task[t].status = "running"
          /\ \A w \in Workers : Executing(w) /\ run[w].task = t =>
                run[w].proc = Host /\ run[w].pc # "check"
      BY <1>4 DEF Recover
    <2>2. \A w \in Workers : Executing(w) /\ run[w].task = t => run[w].cancel
      BY <1>0, <2>1 DEF OutlivedAreCancelled, HostWorkers, Busy, Executing
    <2> QED BY <1>0, <1>1, <1>2, <2>1, <2>2 DEF Rests, Executing
  <1> QED BY <1>3, <1>4

\* Only a user enables it, ...
LEMMA HeldFile ==
    ASSUME TypeOK, HeldRests, [Next]_vars, ~Recover, NEW t \in held, t \in held'
    PROVE  task'[t].status \notin {"enabled", "running"} \/ task'[t].status = task[t].status
  <1>0. /\ run \in [Workers -> RunState] /\ task \in [Tasks -> Task] /\ t \in Tasks
        /\ task[t].status # "enabled"
    BY TypeParts DEF HeldRests
  <1>1. CASE UNCHANGED vars \/ FileKept
    BY <1>1, FileKeptFrame DEF vars
  <1>2. ASSUME NEW u \in Tasks, TimePasses(u)
        PROVE  task'[t].status = task[t].status
    BY <1>0, <1>2 DEF TimePasses, Task
  <1>3. ASSUME NEW u \in Tasks, UserSteps(u)
        PROVE  task'[t].status # "enabled" /\ (task'[t].status = "running" =>
                                               task[t].status = "running")
    <2>1. PICK op \in AllUserOps, new \in Task :
             UserWrites(u, op, new) /\ (new.status = "running" => task[u].status = "running")
      BY <1>3, UserWrite
    <2>2. task' = [task EXCEPT ![u] = new] /\ (new.status = "enabled" => held' = held \ {u})
      BY <2>1 DEF UserWrites
    <2> QED BY <1>0, <2>1, <2>2
  <1>4. ASSUME NEW w \in Workers, Claim(w)
        PROVE  task'[t] = task[t]
    BY <1>0, <1>4 DEF Claim
  <1>5. ASSUME NEW w \in Workers, Check(w)
        PROVE  task'[t] = task[t]
    <2>1. run[w].pc = "check" /\ run[w].task \in Tasks /\ (task' = task \/ task' = Reverted(w))
      BY <1>0, <1>5 DEF Check, RunState
    <2>2. run[w].task # t
      BY <2>1 DEF HeldRests, Executing
    <2> QED BY <1>0, <2>1, <2>2, UpdatedOthers DEF Reverted
  <1>6. ASSUME NEW w \in Workers, NEW more \in BOOLEAN, Finish(w, more)
        PROVE  task'[t].status \in {task[t].status, "cancelled"}
    <2>1. /\ run[w].pc = "finish" /\ run[w].task \in Tasks
          /\ task' = task \/ task' = Updated(run[w].task, Finished(run[w].task, w, more))
      BY <1>0, <1>6 DEF Finish, RunState
    <2>2. CASE run[w].task # t
      BY <1>0, <2>1, <2>2, UpdatedOthers
    <2>3. CASE run[w].task = t
      <3>1. run[w].cancel
        BY <2>1, <2>3 DEF HeldRests, Executing
      <3>2. Finished(t, w, more).status = "cancelled"
        BY <1>0, <3>1 DEF Finished, Task
      <3> QED BY <1>0, <2>1, <2>3, <3>2 DEF Updated
    <2> QED BY <2>2, <2>3
  <1> QED BY <1>1, <1>2, <1>3, <1>4, <1>5, <1>6, NextCases

\* ... and nobody starts to execute it.
LEMMA HeldWorkers ==
    ASSUME TypeOK, HeldRests, [Next]_vars, NEW t \in held,
           NEW w \in Workers, Executing(w)', run'[w].task = t
    PROVE  run'[w].pc # "check" /\ run'[w].cancel
  <1>0. /\ run \in [Workers -> RunState] /\ run[w] \in RunState /\ task[t].status # "enabled"
    BY TypeParts DEF HeldRests
  <1>1. CASE \E p \in Procs, u \in Tasks, v \in Workers : HandsOut(p, u, v)
    <2>1. run'[w] = run[w]
      BY <1>1, HandedOut DEF Executing
    <2> QED BY <2>1 DEF HeldRests, Executing
  <1>2. CASE ~ \E p \in Procs, u \in Tasks, v \in Workers : HandsOut(p, u, v)
    <2>1. Busy(w) /\ run[w].task = t /\ (run[w].cancel => run'[w].cancel)
      BY <1>2, BusyStep DEF Executing
    <2>2. ~Claim(w)
      <3> SUFFICES ASSUME Claim(w)
                   PROVE  FALSE
        OBVIOUS
      <3>1. run'[w] = Idle
        BY <1>0, <2>1 DEF Claim
      <3> QED BY <3>1, IdleType DEF Executing
    <2>3. Executing(w) /\ (run'[w].pc = "check" => run[w].pc = "check")
      <3>1. CASE run' = run
        BY <3>1 DEF Executing
      <3>2. CASE FileKept
        <4>1. ASSUME NEW p \in Procs,
                     List(p) \/ ThreadExit(p) \/ BackOff(p) \/ StartScheduler(p)
              PROVE  run' = run
          BY <4>1 DEF List, ThreadExit, BackOff, StartScheduler
        <4>2. ASSUME NEW p \in Procs, Stop(p) \/ Crash(p)
              PROVE  run'[w].pc = run[w].pc
          BY <1>0, <4>2, IdleType DEF Stop, Crash, RunState, Executing
        <4>3. ASSUME NEW v \in Workers, Watchdog(v)
              PROVE  run'[w].pc = run[w].pc
          BY <1>0, <4>3 DEF Watchdog, RunState
        <4>4. ASSUME NEW v \in Workers, Work(v)
              PROVE  run'[w].pc = run[w].pc \/ (run[w].pc = "work" /\ run'[w].pc = "finish")
          BY <1>0, <4>4 DEF Work, RunState
        <4> QED BY <1>2, <3>1, <3>2, <4>1, <4>2, <4>3, <4>4 DEF FileKept, Executing, HandsOut
      <3>3. ASSUME NEW u \in Tasks, TimePasses(u) \/ UserSteps(u)
            PROVE  run' = run
        <4>1. CASE TimePasses(u)
          BY <4>1 DEF TimePasses
        <4>2. CASE UserSteps(u)
          BY <4>2, UserWrite DEF UserWrites
        <4> QED BY <3>3, <4>1, <4>2
      <3>4. ASSUME NEW v \in Workers,
                   Claim(v) \/ Check(v) \/ \E more \in BOOLEAN : Finish(v, more)
            PROVE  run'[w] = run[w] \/ (run[w].pc = "check" /\ run'[w].pc = "work")
        BY <1>0, <2>2, <3>4, IdleType DEF Claim, Check, Finish, RunState, Executing
      <3>5. Recover \/ UNCHANGED vars => run' = run
        BY DEF Recover, vars
      <3> QED BY <3>1, <3>2, <3>3, <3>4, <3>5, NextCases DEF Executing
    <2> QED BY <2>1, <2>3 DEF HeldRests
  <1> QED BY <1>1, <1>2

LEMMA HeldKept ==
    ASSUME [Next]_vars, ~Recover, TypeOK
    PROVE  held' \subseteq held
  <1>1. \A t \in Tasks : UserSteps(t) => held' \subseteq held
    BY UserWrite DEF UserWrites
  <1>2. \A t \in Tasks : TimePasses(t) => held' = held
    BY DEF TimePasses, quiet
  <1>3. \A w \in Workers : Claim(w) \/ Check(w) \/ (\E more \in BOOLEAN : Finish(w, more))
                           => held' = held
    BY DEF Claim, Check, Finish, quiet
  <1> QED BY <1>1, <1>2, <1>3, FileKeptFrame, NextCases DEF vars

LEMMA HeldRestsStep ==
    ASSUME TypeOK, OutlivedAreCancelled, HeldRests, [Next]_vars
    PROVE  HeldRests'
  <1>1. CASE Recover
    BY <1>1, RecoverRests DEF HeldRests, Rests, Executing
  <1>2. CASE ~Recover
    <2> SUFFICES ASSUME NEW t \in held'
                 PROVE  /\ task'[t].status # "enabled"
                        /\ \A w \in Workers : Executing(w)' /\ run'[w].task = t =>
                               run'[w].pc # "check" /\ run'[w].cancel
      BY DEF HeldRests, Executing
    <2>1. t \in held /\ task[t].status # "enabled"
      BY <1>2, HeldKept DEF HeldRests
    <2> QED BY <1>2, <2>1, HeldFile, HeldWorkers
  <1> QED BY <1>1, <1>2
-----------------------------------------------------------------------------
(* The theorems.                                                           *)
LEMMA InvInit == Init => IInv
  <1> SUFFICES ASSUME Init
               PROVE  IInv
    OBVIOUS
  <1>1. TypeOK
    BY TypeInit
  <1>2. \A w \in Workers : run[w].pc = "idle"
    BY IdleType DEF Init
  <1>3. \A t \in Tasks : task[t].status = "enabled"
    BY DEF Init
  <1>4. HostWorkers = {}
    BY <1>2 DEF HostWorkers, Busy
  <1>5. SlotsInv
    BY <1>4, FS_EmptySet, SlotsFacts, CronAssumption
  <1>6. RunsLeft /\ RunningIsExecuted /\ ManualElsewhere /\ OutlivedAreCancelled
    BY <1>2, <1>3, <1>4 DEF RunsLeft, RunningIsExecuted, ManualElsewhere, Busy,
                            OutlivedAreCancelled
  <1>7. HeldRests
    BY DEF Init, HeldRests
  <1> QED BY <1>1, <1>5, <1>6, <1>7 DEF IInv, SlotsInv

LEMMA InvStep == IInv /\ [Next]_vars => IInv'
  BY TypeStep, RunsLeftStep, RunningIsExecutedStep, ManualElsewhereStep, SlotsStep,
     OutlivedStep, HeldRestsStep DEF IInv, SlotsInv

LEMMA Invariant == Spec => []IInv
  BY InvInit, InvStep, PTL DEF Spec

(* Every task file is one the store would write, workers and threads are   *)
(* at their control points, counters within their bounds.                  *)
THEOREM CronTypeCorrect == Spec => []TypeOK
  BY Invariant, PTL DEF IInv

(* The host never executes one task twice at a time, nor more tasks than   *)
(* max_concurrent_requests: late and stopped workers keep their slots.     *)
THEOREM SlotsAreHeld == Spec => []SlotsHeld
  BY Invariant, PTL DEF IInv

(* A task that says "running" is executed by the worker that claimed it,   *)
(* unless its process died or an edit has taken the attempt id away.       *)
THEOREM RunningTasksAreExecuted == Spec => []RunningIsExecuted
  BY Invariant, PTL DEF IInv

(* An interrupted task is not run again before a user has enabled it.      *)
THEOREM InterruptedStaysInterrupted == Spec => NoReplay
  <1>1. ASSUME IInv, [Next]_vars
        PROVE  \A t \in held : task'[t].status = "running" => task[t].status = "running"
    <2> SUFFICES ASSUME NEW t \in held, task'[t].status = "running"
                 PROVE  task[t].status = "running"
      OBVIOUS
    <2>1. t \in Tasks /\ task[t].status # "enabled"
      BY <1>1, TypeParts DEF IInv, HeldRests
    <2> QED BY <1>1, <2>1, RunningStep DEF IInv
  <1>2. IInv /\ [Next]_vars =>
           [\A t \in held : task'[t].status = "running" => task[t].status = "running"]_vars
    BY <1>1
  <1> QED BY <1>2, Invariant, PTL DEF Spec, NoReplay
=============================================================================
