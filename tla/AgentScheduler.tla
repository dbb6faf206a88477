--------------------------- MODULE AgentScheduler ---------------------------
(***************************************************************************)
(* The subagent scheduler of one user (src/run/agents): callers submit     *)
(* tasks to a bounded queue, one dispatcher thread starts them within the  *)
(* concurrency limit, an executor thread runs each one and may give up on  *)
(* a child thread that outlives its deadline; a callback reconciles that   *)
(* task when the child ends.  Anybody may cancel, the dispatcher may go    *)
(* idle or the scheduler be closed, and a task stopped by its budget may   *)
(* be resumed: a new AgentTask object then takes its id.                   *)
(*                                                                         *)
(* An object is <<task id, run_count>>.  Every block under the scheduler   *)
(* lock is one action, with the ledger write it makes; what the code does  *)
(* outside the lock (the child's run, the result handler, the executor's   *)
(* own emissions) are actions of their own.                                *)
(***************************************************************************)
EXTENDS Integers, FiniteSets, SpaceTurns

CONSTANTS
    Tasks,         \* task ids that may be submitted, each once
    MaxRounds,     \* MAX_RESUME_ROUNDS: the largest run_count
    Serial,        \* tasks of background_serial agents
    Owned,         \* tasks submitted with an ownership: they have a ledger record
    Handlers,      \* tasks with a result_handler
    Continuable,   \* tasks whose runs keep a checkpoint
    Space,         \* the conversation space of each task
    NoSpace,       \* the scope of a task submitted without one
    MaxSize,       \* queue_maxsize, 0 for no bound
    MaxLimit,      \* bound: the largest configured max_requests
    MaxRetained    \* _MAX_RETAINED_TERMINAL_TASKS

ASSUME SchedulerAssumption ==
    /\ IsFiniteSet(Tasks)
    /\ MaxRounds \in Nat \ {0} /\ MaxSize \in Nat
    /\ MaxLimit \in Nat \ {0} /\ MaxRetained \in Nat
    /\ Serial \cup Owned \cup Handlers \cup Continuable \subseteq Tasks
    /\ DOMAIN Space = Tasks

VARIABLES
    tasks,     \* _tasks: the round of the object each id names, 0 for none
    obj,       \* the AgentTask objects
    pc,        \* per object: where its executor thread is
    child,     \* per object: the thread runner.run() started
    watch,     \* per object: the done-callback of a detached child
    submit,    \* per task: where the call of submit() is
    queue,     \* _queue
    turns,     \* _queue._turns
    record,    \* the task's row in the ledger
    limit,     \* max_requests of _concurrency_config
    closed,    \* _closed
    worker     \* the dispatcher thread lives

taskVars == <<obj, pc, child, watch>>
ctlVars  == <<limit, closed, worker>>
vars == <<tasks, taskVars, submit, queue, turns, record, ctlVars>>
-----------------------------------------------------------------------------
Rounds  == 1..MaxRounds
Objects == Tasks \X Rounds
Spaces  == {Space[t] : t \in Tasks}

Status == {"new", "queued", "running", "completed", "failed", "cancelled",
           "timed_out", "timed_out_running", "tool_limit"}
Retainable  == {"completed", "failed", "cancelled", "timed_out", "tool_limit"}
BudgetStops == {"timed_out", "tool_limit"}

\* alive: error.process_terminated is False; asked: error.user_cancel_requested.
Object == [status : Status, alive : BOOLEAN, asked : BOOLEAN,
           cancel : BOOLEAN, resumable : BOOLEAN, done : BOOLEAN]
Fresh(s) == [status |-> s, alive |-> FALSE, asked |-> FALSE,
             cancel |-> FALSE, resumable |-> FALSE, done |-> FALSE]

RecordStatus == (Status \ {"new"}) \cup {"none", "cancelling"}
Record == [status : RecordStatus, live : BOOLEAN, run : Rounds,
           resumable : BOOLEAN, handled : BOOLEAN]
NoRecord == [status |-> "none", live |-> FALSE, run |-> 1,
             resumable |-> FALSE, handled |-> FALSE]
Final == {"completed", "failed", "cancelled", "timed_out", "tool_limit"}

\* The row says that the task has come to its end and nothing of it runs.
Over(r) == r.status \in Final /\ ~r.live

Current(o)  == tasks[o[1]] = o[2]
\* Mutant: no look at the object or its round.
AlwaysWrites(o) == o[1] \in Owned

\* _tasks.get(id) is neither another object nor does the row belong to one.
MayWrite(o) == /\ o[1] \in Owned
               /\ tasks[o[1]] \in {0, o[2]}
               /\ record[o[1]].run = o[2]

\* A task whose child may still be executing holds its slot.
Occupies(o, x) ==
    /\ Current(o)
    /\ \/ x.status \in {"running", "timed_out_running"}
       \/ x.status = "cancelled" /\ x.alive
Live == {o \in Objects : Occupies(o, obj[o])}
Active == [s \in Spaces |-> Cardinality({o \in Live : Space[o[1]] = s})]
SerialBusy == \E o \in Live : o[1] \in Serial

StillRunning(x) == \/ x.status = "timed_out_running"
                   \/ x.status = "cancelled" /\ x.alive

\* scheduler_update: what the row of task o[1] says of object x.
Projected(r, x) ==
    LET live == x.status \in {"queued", "running", "timed_out_running"} \/ x.alive
    IN  [r EXCEPT !.status    = IF x.asked /\ live THEN "cancelling" ELSE x.status,
                  !.live      = live,
                  !.resumable = x.resumable /\ x.status \in BudgetStops]

\* _emit for the objects of S, whose new values are os (one per task at most).
Emitted(S, os) ==
    [t \in Tasks |->
        LET mine == {o \in S : o[1] = t /\ MayWrite(o)}
        IN  IF mine = {} THEN record[t]
            ELSE Projected(record[t], os[CHOOSE o \in mine : TRUE])]
-----------------------------------------------------------------------------
Init == /\ tasks = [t \in Tasks |-> 0]
        /\ obj   = [o \in Objects |-> Fresh("new")]
        /\ pc    = [o \in Objects |-> "none"]
        /\ child = [o \in Objects |-> "none"]
        /\ watch = [o \in Objects |-> "none"]
        /\ submit = [t \in Tasks |-> "no"]
        /\ queue = << >> /\ turns = FirstTurn
        /\ record = [t \in Tasks |-> NoRecord]
        /\ limit \in 1..MaxLimit
        /\ closed = FALSE /\ worker = FALSE
-----------------------------------------------------------------------------
(* ReadyTaskQueue.put: the total bound, a space's share of it, and the    *)
(* head room kept for spaces that have nothing waiting.                   *)
SpaceShare == IF MaxSize <= 1 THEN 1 ELSE (MaxSize + 1) \div 2
Reserve    == IF MaxSize \div 5 < 5 THEN MaxSize \div 5 ELSE 5
Waiting(s) == Cardinality({i \in 1..Len(queue) : /\ Space[queue[i][1]] = s
                                                 /\ obj[queue[i]].status = "queued"})
HasRoom(t) ==
    LET mine == Waiting(Space[t])
    IN  \/ MaxSize = 0
        \/ /\ Len(queue) < MaxSize
           /\ Space[t] # NoSpace => /\ mine < SpaceShare
                                    /\ \/ mine = 0 \/ Reserve = 0
                                       \/ Len(queue) < MaxSize - Reserve

\* submit() under the lock: worker, ledger row, object, enqueue in flight.
SubmitRegister(t) ==
    /\ submit[t] = "no" /\ ~closed
    /\ submit' = [submit EXCEPT ![t] = "put"]
    /\ worker' = TRUE
    /\ tasks' = [tasks EXCEPT ![t] = 1]
    /\ obj' = [obj EXCEPT ![<<t, 1>>] = Fresh("queued")]
    /\ record' = IF t \in Owned
                 THEN [record EXCEPT ![t] = [NoRecord EXCEPT !.status = "queued"]]
                 ELSE record
    /\ UNCHANGED <<pc, child, watch, queue, turns, limit, closed>>

\* ... then put() without it,
SubmitPut(t) ==
    /\ submit[t] = "put" /\ HasRoom(t)
    /\ submit' = [submit EXCEPT ![t] = "return"]
    /\ queue' = Append(queue, <<t, 1>>)
    /\ UNCHANGED <<tasks, taskVars, turns, record, ctlVars>>

\* ... which may fail: the task is withdrawn,
SubmitFull(t) ==
    /\ submit[t] = "put" /\ ~HasRoom(t)
    /\ submit' = [submit EXCEPT ![t] = "over"]
    /\ tasks' = [tasks EXCEPT ![t] = 0]
    /\ record' = IF t \in Owned
                 THEN [record EXCEPT ![t].status = "failed", ![t].live = FALSE]
                 ELSE record
    /\ UNCHANGED <<taskVars, queue, turns, ctlVars>>

\* ... or the caller reports "queued", unless the task has moved on.
SubmitReturn(t) ==
    LET o == <<t, 1>> IN
    /\ submit[t] = "return"
    /\ submit' = [submit EXCEPT ![t] = "over"]
    /\ record' = IF obj[o].status = "queued" THEN Emitted({o}, obj) ELSE record
    /\ UNCHANGED <<tasks, taskVars, queue, turns, ctlVars>>
-----------------------------------------------------------------------------
(* The dispatcher, _work(): one pass under the lock per action.           *)
\* Mutant: a closed scheduler starts nothing any more.
ReadyWhileOpen(o) == \/ obj[o].status = "cancelled"
                     \/ /\ ~closed
                        /\ Cardinality(Live) < limit
                        /\ o[1] \in Serial => ~SerialBusy

\* Mutant: maintenance tasks run in parallel.
ReadyParallel(o) == obj[o].status = "cancelled" \/ Cardinality(Live) < limit

Ready(o) == \/ obj[o].status = "cancelled"
            \/ /\ Cardinality(Live) < limit
               /\ o[1] \in Serial => ~SerialBusy

\* A task cancelled while it waited is taken first and dropped.
DropCancelled ==
    /\ worker
    /\ \E i \in 1..Len(queue) :
          /\ obj[queue[i]].status = "cancelled"
          /\ \A j \in 1..(i - 1) : obj[queue[j]].status # "cancelled"
          /\ queue' = RemoveAt(queue, i)
    /\ UNCHANGED <<tasks, taskVars, submit, turns, record, ctlVars>>

\* The spaces of the runnable tasks, in the order of the queue.
ReadySpaces == LET ready == SelectSeq(queue, Ready)
               IN  [i \in 1..Len(ready) |-> Space[ready[i][1]]]

\* Otherwise the oldest runnable task of the space whose turn it is starts.
Start ==
    /\ worker
    /\ \A i \in 1..Len(queue) : obj[queue[i]].status # "cancelled"
    /\ \E i \in 1..Len(queue), turn \in Spaces :
          LET mine(o) == Ready(o) /\ Space[o[1]] = turn IN
          /\ Chosen(turn, turns, ReadySpaces, Active)
          /\ mine(queue[i]) /\ \A j \in 1..(i - 1) : ~mine(queue[j])
          /\ queue' = RemoveAt(queue, i)
          /\ turns' = Served(turns, ReadySpaces, Active, turn)
          /\ obj' = [obj EXCEPT ![queue[i]].status = "running"]
          /\ pc'  = [pc EXCEPT ![queue[i]] = "start"]
    /\ UNCHANGED <<tasks, child, watch, submit, record, ctlVars>>

Inflight  == {t \in Tasks : submit[t] \in {"put", "return"}}
Executors == {o \in Objects : pc[o] \notin {"none", "over"}}

\* Mutant: calls in flight are not counted.
HastyExit ==
    /\ worker /\ queue = << >> /\ Executors = {} /\ closed
    /\ worker' = FALSE
    /\ UNCHANGED <<tasks, taskVars, submit, queue, turns, record, limit, closed>>

\* Closed, it waits for callers still in put(); otherwise nothing has happened
\* for _WORKER_IDLE_SECONDS, and no put() into an empty queue takes that long.
WorkerExit ==
    /\ worker /\ queue = << >> /\ Executors = {} /\ Inflight = {}
    /\ \/ closed
       \/ /\ ~closed
          /\ \A t \in Tasks : tasks[t] # 0 =>
                obj[<<t, tasks[t]>>].status \notin {"queued", "running"}
    /\ worker' = FALSE
    /\ UNCHANGED <<tasks, taskVars, submit, queue, turns, record, limit, closed>>
-----------------------------------------------------------------------------
(* An executor thread, _run_task().                                       *)
\* Mutant: a cancelled task is terminal even while its child executes.
TerminalSet(os) == {o \in Objects : Current(o) /\ os[o].status \in Retainable}

RetainableSet(os) == {o \in Objects : /\ Current(o)
                                      /\ os[o].status \in Retainable
                                      /\ ~(os[o].status = "cancelled" /\ os[o].alive)}

\* _prune_terminal_tasks_locked: the oldest terminal tasks are forgotten;
\* their times are not modelled, so any of them may be the oldest.
Prune(os) ==
    LET old == RetainableSet(os) IN
    \E drop \in SUBSET old :
        /\ Cardinality(drop) = IF Cardinality(old) > MaxRetained
                               THEN Cardinality(old) - MaxRetained ELSE 0
        /\ tasks' = [t \in Tasks |-> IF \E o \in drop : o[1] = t THEN 0 ELSE tasks[t]]

\* The except block under the lock.  A detached child gets watched next.
Settle(o, status, alive, resumable) ==
    /\ obj' = [obj EXCEPT ![o].status = status, ![o].alive = alive,
                          ![o].resumable = resumable]
    /\ Prune(obj')
    /\ pc' = [pc EXCEPT ![o] = IF alive THEN "watch" ELSE "emit"]

SerialLockFree(o) ==
    o[1] \in Serial =>
        \A p \in Objects : p[1] \in Serial => pc[p] \notin {"run", "handler"}

EmitRunning(o) ==
    /\ pc[o] = "start"
    /\ pc' = [pc EXCEPT ![o] = "enter"]
    /\ record' = Emitted({o}, obj)
    /\ UNCHANGED <<tasks, obj, child, watch, submit, queue, turns, ctlVars>>

CancelledAtStart(o) ==
    /\ pc[o] = "enter" /\ SerialLockFree(o) /\ obj[o].cancel
    /\ Settle(o, "cancelled", FALSE, FALSE)
    /\ UNCHANGED <<child, watch, submit, queue, turns, record, ctlVars>>

\* runner.run() starts the child thread and polls it.
Begin(o) ==
    /\ pc[o] = "enter" /\ SerialLockFree(o) /\ ~obj[o].cancel
    /\ pc' = [pc EXCEPT ![o] = "run"]
    /\ child' = [child EXCEPT ![o] = "running"]
    /\ UNCHANGED <<tasks, obj, watch, submit, queue, turns, record, ctlVars>>

\* The child returned: the last look at cancel_event, then result_handler.
RunReturns(o) ==
    /\ pc[o] = "run" /\ child[o] = "ok"
    /\ \/ obj[o].cancel /\ Settle(o, "cancelled", FALSE, FALSE)
       \/ /\ ~obj[o].cancel
          /\ pc' = [pc EXCEPT ![o] = "handler"]
          /\ UNCHANGED <<tasks, obj>>
    /\ UNCHANGED <<child, watch, submit, queue, turns, record, ctlVars>>

\* The child raised: an error, or its tool budget is exhausted.
RunRaises(o) ==
    /\ pc[o] = "run" /\ child[o] = "error"
    /\ \/ obj[o].cancel /\ Settle(o, "cancelled", FALSE, FALSE)
       \/ ~obj[o].cancel /\ Settle(o, "failed", FALSE, FALSE)
       \/ /\ ~obj[o].cancel
          /\ \E b \in BOOLEAN : /\ b => o[1] \in Continuable
                                /\ Settle(o, "tool_limit", FALSE, b)
    /\ UNCHANGED <<child, watch, submit, queue, turns, record, ctlVars>>

\* Mutant: a timeout is final whether or not the child has exited.
RunStops(o) ==
    /\ pc[o] = "run"
    /\ \E b \in BOOLEAN : (b => o[1] \in Continuable) /\ Settle(o, "timed_out", FALSE, b)
    /\ UNCHANGED <<child, watch, submit, queue, turns, record, ctlVars>>

\* The deadline and its grace passed; the child may still be running.
RunTimesOut(o) ==
    LET alive == child[o] = "running" IN
    /\ pc[o] = "run"
    /\ \E b \in BOOLEAN :
          /\ b => ~alive /\ o[1] \in Continuable
          /\ Settle(o, IF alive THEN "timed_out_running" ELSE "timed_out", alive, b)
    /\ UNCHANGED <<child, watch, submit, queue, turns, record, ctlVars>>

RunCancelled(o) ==
    /\ pc[o] = "run" /\ obj[o].cancel
    /\ Settle(o, "cancelled", child[o] = "running", FALSE)
    /\ UNCHANGED <<child, watch, submit, queue, turns, record, ctlVars>>

HandlerReturns(o) ==
    /\ pc[o] = "handler"
    /\ Settle(o, "completed", FALSE, FALSE)
    /\ UNCHANGED <<child, watch, submit, queue, turns, record, ctlVars>>

HandlerRaises(o) ==
    /\ pc[o] = "handler" /\ o[1] \in Handlers
    /\ Settle(o, IF obj[o].cancel THEN "cancelled" ELSE "failed", FALSE, FALSE)
    /\ UNCHANGED <<child, watch, submit, queue, turns, record, ctlVars>>

Watch(o) ==
    /\ pc[o] = "watch"
    /\ pc' = [pc EXCEPT ![o] = "emit"]
    /\ watch' = [watch EXCEPT ![o] = "armed"]
    /\ UNCHANGED <<tasks, obj, child, submit, queue, turns, record, ctlVars>>

EmitSettled(o) ==
    /\ pc[o] = "emit"
    /\ pc' = [pc EXCEPT ![o] = "finish"]
    /\ record' = Emitted({o}, obj)
    /\ UNCHANGED <<tasks, obj, child, watch, submit, queue, turns, ctlVars>>

Finish(o) ==
    /\ pc[o] = "finish"
    /\ pc' = [pc EXCEPT ![o] = "over"]
    /\ obj' = [obj EXCEPT ![o].done = TRUE]
    /\ UNCHANGED <<tasks, child, watch, submit, queue, turns, record, ctlVars>>

Executor(o) == \/ EmitRunning(o) \/ CancelledAtStart(o) \/ Begin(o)
               \/ RunReturns(o) \/ RunRaises(o) \/ RunTimesOut(o) \/ RunCancelled(o)
               \/ HandlerReturns(o) \/ HandlerRaises(o)
               \/ Watch(o) \/ EmitSettled(o) \/ Finish(o)
-----------------------------------------------------------------------------
(* The child thread, and the callback that reconciles a detached one.     *)
ChildEnds(o) ==
    /\ child[o] = "running"
    /\ \E how \in {"ok", "error"} : child' = [child EXCEPT ![o] = how]
    /\ UNCHANGED <<tasks, obj, pc, watch, submit, queue, turns, record, ctlVars>>

\* Mutant: the callback forgets to write the row.
ReconciledQuietly(o, x) ==
    /\ obj' = [obj EXCEPT ![o] = x]
    /\ watch' = [watch EXCEPT ![o] = "over"]
    /\ UNCHANGED <<pc, child, submit, queue, turns, record, ctlVars>>

Reconciled(o, x) ==
    /\ obj' = [obj EXCEPT ![o] = x]
    /\ record' = Emitted({o}, obj')
    /\ watch' = [watch EXCEPT ![o] = "over"]
    /\ UNCHANGED <<pc, child, submit, queue, turns, ctlVars>>

ReconcileError(o) ==
    LET x == obj[o] IN
    /\ watch[o] = "armed" /\ child[o] = "error" /\ Current(o)
    /\ \E b \in BOOLEAN :
          LET status == IF x.status = "cancelled" \/ x.asked THEN "cancelled"
                        ELSE IF x.status = "timed_out_running" THEN "timed_out"
                        ELSE "failed"
          IN  /\ b => o[1] \in Continuable /\ status = "timed_out"
              /\ Reconciled(o, [x EXCEPT !.status = status, !.alive = FALSE,
                                         !.resumable = b])
    /\ Prune(obj')

\* The child returned after all, but the task was cancelled meanwhile ...
ReconcileCancelled(o) ==
    /\ watch[o] = "armed" /\ child[o] = "ok" /\ Current(o)
    /\ obj[o].asked \/ obj[o].status = "cancelled"
    /\ Reconciled(o, [obj[o] EXCEPT !.status = "cancelled", !.alive = FALSE,
                                    !.resumable = FALSE])
    /\ UNCHANGED tasks

\* ... or wrapped up with a checkpoint ...
ReconcileStopped(o) ==
    /\ watch[o] = "armed" /\ child[o] = "ok" /\ Current(o)
    /\ ~obj[o].asked /\ obj[o].status # "cancelled" /\ o[1] \in Continuable
    /\ \E b \in BOOLEAN :
          Reconciled(o, [obj[o] EXCEPT !.status = "timed_out", !.alive = FALSE,
                                       !.resumable = b])
    /\ UNCHANGED tasks

\* ... or has a late result, given to result_handler outside the lock.
ReconcileResult(o) ==
    /\ watch[o] = "armed" /\ child[o] = "ok" /\ Current(o)
    /\ ~obj[o].asked /\ obj[o].status # "cancelled" /\ o[1] \notin Continuable
    /\ watch' = [watch EXCEPT ![o] = "handler"]
    /\ UNCHANGED <<tasks, obj, pc, child, submit, queue, turns, record, ctlVars>>

LateResult(o) ==
    /\ watch[o] = "handler" /\ Current(o)
    /\ \/ Reconciled(o, [obj[o] EXCEPT !.status = "completed", !.alive = FALSE,
                                       !.asked = FALSE])
       \/ /\ o[1] \in Handlers
          /\ Reconciled(o, [obj[o] EXCEPT !.status = "failed", !.alive = FALSE])
    /\ Prune(obj')

Callback(o) == \/ ReconcileError(o) \/ ReconcileCancelled(o) \/ ReconcileStopped(o)
               \/ ReconcileResult(o) \/ LateResult(o)
-----------------------------------------------------------------------------
\* cancel() refuses an unknown task and one that ended with nothing running.
Cancellable(t) ==
    /\ tasks[t] # 0
    /\ LET x == obj[<<t, tasks[t]>>] IN x.status \notin Retainable \/ StillRunning(x)

\* Mutant: nobody wakes the waiters of a task cancelled in the queue.
CancelledSilently(x) ==
    IF x.status = "queued"
    THEN [x EXCEPT !.status = "cancelled", !.cancel = TRUE, !.asked = TRUE]
    ELSE [x EXCEPT !.cancel = TRUE, !.asked = TRUE]

Cancelled(x) ==
    IF x.status = "queued"
    THEN [x EXCEPT !.status = "cancelled", !.cancel = TRUE, !.asked = TRUE, !.done = TRUE]
    ELSE [x EXCEPT !.cancel = TRUE, !.asked = TRUE]

Cancel(t) ==
    LET o == <<t, tasks[t]>> IN
    /\ Cancellable(t)
    /\ obj' = [obj EXCEPT ![o] = Cancelled(@)]
    /\ record' = Emitted({o}, obj')
    /\ UNCHANGED <<tasks, pc, child, watch, submit, queue, turns, ctlVars>>

\* close(): with cancel_pending it cancels what waits and interrupts what runs.
Close(cancelPending) ==
    LET open(s) == {o \in Objects : Current(o) /\ obj[o].status \in s}
        queued  == open({"queued"})
        live    == open({"running", "timed_out_running"})
    IN  /\ ~closed
        /\ closed' = TRUE
        /\ IF cancelPending
           THEN /\ obj' = [o \in Objects |->
                    IF o \in queued THEN [obj[o] EXCEPT !.cancel = TRUE, !.done = TRUE,
                                                        !.status = "cancelled"]
                    ELSE IF o \in live THEN [obj[o] EXCEPT !.cancel = TRUE]
                    ELSE obj[o]]
                /\ record' = Emitted(queued, obj')
           ELSE UNCHANGED <<obj, record>>
        /\ UNCHANGED <<tasks, pc, child, watch, submit, queue, turns, limit, worker>>

ConfigureConcurrency ==
    /\ limit' \in 1..MaxLimit \ {limit}
    /\ UNCHANGED <<tasks, taskVars, submit, queue, turns, record, closed, worker>>

\* resume_task(): a budget stop goes on as a new object of the next round.
Resume(t) ==
    LET r == record[t]
        o == <<t, tasks[t]>>
        n == <<t, r.run + 1>>
    IN  /\ ~closed /\ t \in Owned \ Serial
        /\ tasks[t] # 0 => obj[o].status \in BudgetStops /\ ~obj[o].alive
        /\ r.status \in BudgetStops /\ ~r.live /\ r.resumable
        /\ r.run < MaxRounds /\ HasRoom(t)
        /\ tasks' = [tasks EXCEPT ![t] = n[2]]
        /\ obj' = [obj EXCEPT ![n] = Fresh("queued")]
        /\ record' = [record EXCEPT ![t] = [status |-> "queued", live |-> TRUE,
                                            run |-> n[2], resumable |-> FALSE,
                                            handled |-> FALSE]]
        /\ queue' = Append(queue, n)
        /\ worker' = TRUE
        /\ UNCHANGED <<pc, child, watch, submit, turns, limit, closed>>
-----------------------------------------------------------------------------
SubmitStep(t) == SubmitPut(t) \/ SubmitFull(t) \/ SubmitReturn(t)
Dispatcher == DropCancelled \/ Start \/ WorkerExit

\* What the scheduler's own threads do.
Threads == \/ Dispatcher
           \/ \E t \in Tasks : SubmitStep(t)
           \/ \E o \in Objects : Executor(o) \/ ChildEnds(o) \/ Callback(o)

Next == \/ Threads
        \/ \E t \in Tasks : SubmitRegister(t) \/ Cancel(t) \/ Resume(t)
        \/ \E b \in BOOLEAN : Close(b)
        \/ ConfigureConcurrency

Spec == Init /\ [][Next]_vars

\* Every thread that can go on does: polls have deadlines, and a child ends
\* because its provider and tool calls are bounded by their own time limits.
Fairness == /\ WF_vars(DropCancelled \/ Start \/ (closed /\ WorkerExit))
            /\ \A t \in Tasks : WF_vars(SubmitStep(t))
            /\ \A o \in Objects : /\ WF_vars(Executor(o))
                                  /\ WF_vars(ChildEnds(o) \/ Callback(o))
FairSpec == Spec /\ Fairness
-----------------------------------------------------------------------------
TypeOK ==
    /\ tasks \in [Tasks -> 0..MaxRounds]
    /\ obj \in [Objects -> Object]
    /\ pc \in [Objects -> {"none", "start", "enter", "run", "handler", "watch",
                           "emit", "finish", "over"}]
    /\ child \in [Objects -> {"none", "running", "ok", "error"}]
    /\ watch \in [Objects -> {"none", "armed", "handler", "over"}]
    /\ submit \in [Tasks -> {"no", "put", "return", "over"}]
    /\ queue \in Seq(Objects)
    /\ record \in [Tasks -> Record]
    /\ limit \in 1..MaxLimit
    /\ closed \in BOOLEAN /\ worker \in BOOLEAN

\* The ledger's word that a task is over can be trusted: no thread of any of
\* its rounds is still executing, whatever timed out, was cancelled, detached,
\* pruned or resumed before (the completion barrier rests on it).
RecordTruth ==
    \A t \in Tasks : Over(record[t]) =>
        \A r \in Rounds : /\ child[<<t, r>>] # "running"
                          /\ watch[<<t, r>>] \notin {"armed", "handler"}

\* A child that executes is never disowned: its object stays the one its id
\* names, so it can be cancelled, keeps its slot and is reconciled.
ChildIsOwned ==
    \A o \in Objects : child[o] = "running" \/ watch[o] \in {"armed", "handler"}
                           => Current(o)

\* However often children outlive their deadline, no more of them execute at
\* once than the largest limit ever configured, and one serial child at most.
ThreadsWithinLimit ==
    LET executing == {o \in Objects : child[o] = "running"}
    IN  /\ Cardinality(executing) <= MaxLimit
        /\ Cardinality({o \in executing : o[1] \in Serial}) <= 1

\* An emission of the object is still to come from its executor.
Owed(o) == pc[o] \in {"start", "watch", "emit"}

\* Whatever order executor, callback, cancel and an old round write in, the
\* row shows the present state of the present object once nobody owes a write.
RecordCurrent ==
    \A t \in Owned : LET o == <<t, tasks[t]>> IN
        tasks[t] # 0 /\ ~Owed(o) /\ (submit[t] = "over" \/ obj[o].status # "queued")
            => record[t] = Projected([record[t] EXCEPT !.run = o[2]], obj[o])

\* Nothing waits in the queue without a dispatcher that will look at it,
\* although it exits when idle or closed while callers are still in put().
WorkerForQueue == queue # << >> \/ (\E t \in Tasks : submit[t] = "put") => worker

\* Every accepted task is answered: its waiters are woken, unless submit()
\* itself withdrew it and told its caller.
EveryTaskAnswered ==
    \A t \in Tasks : (submit[t] = "put") ~>
        \/ obj[<<t, 1>>].done
        \/ tasks[t] = 0 /\ obj[<<t, 1>>].status = "queued"

\* No row stays live for ever: the main task waiting for it gets an answer.
NoRowStaysLive == \A t \in Owned : record[t].live ~> ~record[t].live

\* close(wait=True) returns: the dispatcher drains the queue and exits.
CloseReturns == closed ~> ~worker
=============================================================================
