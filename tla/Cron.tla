-------------------------------- MODULE Cron --------------------------------
(***************************************************************************)
(* User cron tasks (src/cron, src/run/scheduler/cron_store.py): scheduler  *)
(* threads list due tasks and hand each to a worker thread; the worker     *)
(* claims the task, runs it and writes how it ended, while users edit,     *)
(* pause, cancel, delete or run the task by hand, a watchdog cancels late  *)
(* workers and processes stop, crash and recover.                          *)
(***************************************************************************)
EXTENDS Integers, FiniteSets

CONSTANTS
    Tasks,
    Workers,        \* threads that may execute tasks at the same time
    Procs, Host,    \* processes with a scheduler; Host also recovers tasks
    Recurring,      \* the tasks of type "recurring"; the others run once
    MaxRuns,        \* max_runs of every task
    MaxConcurrent,  \* max_concurrent_requests: workers of a scheduler
    UserOps,        \* which interfaces users use, among AllUserOps
    MaxUserOps, MaxClaims, MaxStops  \* bounds

AllUserOps == {"set", "cancel", "webSet", "webKeep", "delete", "cronRun"}

ASSUME CronAssumption ==
    /\ Tasks # {} /\ Host \in Procs /\ Recurring \subseteq Tasks /\ UserOps \subseteq AllUserOps
    /\ {MaxRuns, MaxConcurrent} \subseteq Nat \ {0}
    /\ {MaxUserOps, MaxClaims, MaxStops} \subseteq Nat

VARIABLES
    task,       \* per task: its file
    listed,     \* per process: due tasks the current scan still walks over
    sched,      \* per process: the scheduler thread
    stopping,   \* per process: _stop_event
    run,        \* per worker: what it executes
    claims,     \* attempt ids given out
    ops, stops, \* user operations, stops and crashes so far
    held,       \* observer: tasks interrupted at work and not enabled since
    lost,       \* observer: attempts whose process crashed
    ended       \* observer: per task, tasks a user paused or cancelled

vars == <<task, listed, sched, stopping, run, claims, ops, stops, held, lost, ended>>
quiet == UNCHANGED <<held, lost, ended>>

Status == {"enabled", "paused", "running", "completed", "failed", "cancelled", "deleted"}
Task == [status : Status, attempt : 0..MaxClaims, next : {"none", "later", "due"},
         runs : 0..MaxRuns, why : {"none", "interrupted", "stopped"}]

\* _validate_task: which files can be written.
Valid(t) ==
    /\ \/ t.next # "none"
       \/ t.status \in {"completed", "cancelled", "deleted"}
       \/ t.status = "paused" /\ t.why = "interrupted"
    /\ t.runs = MaxRuns => t.status \notin {"enabled", "paused", "failed"}
    /\ t.runs <= MaxRuns

Present(t) == task[t].status # "deleted"
\* Mutant: the result is written as it is.
UpdatedUnchecked(t, new) == IF Present(t) THEN [task EXCEPT ![t] = new] ELSE task

\* CronStore.update: an invalid result raises and leaves the file alone.
Updated(t, new) == IF Present(t) /\ Valid(new) THEN [task EXCEPT ![t] = new] ELSE task

Idle == [pc |-> "idle", task |-> CHOOSE t \in Tasks : TRUE, attempt |-> 0,
         cancel |-> FALSE, failed |-> FALSE, manual |-> FALSE, proc |-> Host]
Executing(w) == run[w].pc \in {"check", "work", "finish"}
\* _user_executions of a scheduler.
Entries(p) == {w \in Workers : run[w].pc # "idle" /\ ~run[w].manual /\ run[w].proc = p}

Init == /\ task = [t \in Tasks |-> [status |-> "enabled", attempt |-> 0, next |-> "due",
                                    runs |-> 0, why |-> "none"]]
        /\ listed = [p \in Procs |-> {}]
        /\ sched = [p \in Procs |-> "off"]
        /\ stopping = [p \in Procs |-> FALSE]
        /\ run = [w \in Workers |-> Idle]
        /\ claims = 0 /\ ops = 0 /\ stops = 0
        /\ held = {} /\ lost = {} /\ ended = {}
-----------------------------------------------------------------------------
(* Scheduler.                                                              *)

TimePasses(t) ==
    /\ task[t].next = "later"
    /\ task' = [task EXCEPT ![t].next = "due"]
    /\ UNCHANGED <<listed, sched, stopping, run, claims, ops, stops>> /\ quiet

List(p) ==
    /\ sched[p] = "on" /\ ~stopping[p] /\ listed[p] = {}
    /\ listed' = [listed EXCEPT ![p] =
          {t \in Tasks : task[t].status = "enabled" /\ task[t].next = "due"}]
    /\ UNCHANGED <<task, sched, stopping, run, claims, ops, stops>> /\ quiet

\* The rest of the scan is given up: provider congestion, or a stop.
BackOff(p) ==
    /\ listed[p] # {}
    /\ listed' = [listed EXCEPT ![p] = {}]
    /\ UNCHANGED <<task, sched, stopping, run, claims, ops, stops>> /\ quiet

Dispatch(p, t, w) ==
    /\ sched[p] = "on" /\ ~stopping[p] /\ t \in listed[p]
    /\ listed' = [listed EXCEPT ![p] = @ \ {t}]
    /\ IF (\E v \in Entries(p) : run[v].task = t) \/ Cardinality(Entries(p)) >= MaxConcurrent
       THEN run' = run
       ELSE /\ run[w].pc = "idle"
            /\ run' = [run EXCEPT ![w] = [Idle EXCEPT !.pc = "claim", !.task = t, !.proc = p]]
    /\ UNCHANGED <<task, sched, stopping, claims, ops, stops>> /\ quiet

\* Mutant: a worker past its deadline no longer counts.
WatchdogFrees(w) ==
    /\ run[w].pc # "idle" /\ ~run[w].manual /\ ~run[w].cancel
    /\ run' = [run EXCEPT ![w].cancel = TRUE, ![w].manual = TRUE]
    /\ UNCHANGED <<task, listed, sched, stopping, claims, ops, stops>> /\ quiet

\* The watchdog of a worker: its deadline passed or the scheduler stops.
Watchdog(w) ==
    /\ run[w].pc # "idle" /\ ~run[w].manual /\ ~run[w].cancel
    /\ run' = [run EXCEPT ![w].cancel = TRUE]
    /\ UNCHANGED <<task, listed, sched, stopping, claims, ops, stops>> /\ quiet

Stop(p) ==
    /\ sched[p] = "on" /\ ~stopping[p] /\ stops < MaxStops
    /\ stops' = stops + 1
    /\ stopping' = [stopping EXCEPT ![p] = TRUE]
    /\ run' = [w \in Workers |-> IF w \in Entries(p) THEN [run[w] EXCEPT !.cancel = TRUE] ELSE run[w]]
    /\ UNCHANGED <<task, listed, sched, claims, ops>> /\ quiet

ThreadExit(p) ==
    /\ sched[p] = "on" /\ stopping[p]
    /\ sched' = [sched EXCEPT ![p] = "off"]
    /\ listed' = [listed EXCEPT ![p] = {}]
    /\ UNCHANGED <<task, stopping, run, claims, ops, stops>> /\ quiet

\* start() returns at once while the thread of the last start is alive.  The
\* host starts its scheduler only after it has recovered.
StartScheduler(p) ==
    /\ sched[p] = (IF p = Host THEN "recovered" ELSE "off")
    /\ sched' = [sched EXCEPT ![p] = "on"]
    /\ stopping' = [stopping EXCEPT ![p] = FALSE]
    /\ UNCHANGED <<task, listed, run, claims, ops, stops>> /\ quiet

\* Mutant: interrupted tasks are queued again.
Requeued(t) == [t EXCEPT !.status = "enabled"]

Interrupted(t) == [t EXCEPT !.status = "paused", !.why = "interrupted", !.next = "none"]
\* RuntimeHost.start: recover_all.  Workers that outlived stop() go on, and so
\* do those of another process.
Recover ==
    LET running == {t \in Tasks : task[t].status = "running"} IN
    /\ sched[Host] = "off"
    /\ task' = [t \in Tasks |-> IF t \in running THEN Interrupted(task[t]) ELSE task[t]]
    /\ held' = held \cup {t \in running :
                  \A w \in Workers : Executing(w) /\ run[w].task = t =>
                      run[w].proc = Host /\ run[w].pc # "check"}
    /\ sched' = [sched EXCEPT ![Host] = "recovered"]
    /\ UNCHANGED <<listed, stopping, run, claims, ops, stops, lost, ended>>

Crash(p) ==
    LET its == {w \in Workers : run[w].pc # "idle" /\ run[w].proc = p}
    IN  /\ stops < MaxStops /\ stops' = stops + 1
        /\ sched' = [sched EXCEPT ![p] = "off"]
        /\ stopping' = [stopping EXCEPT ![p] = FALSE]
        /\ listed' = [listed EXCEPT ![p] = {}]
        /\ run' = [w \in Workers |-> IF w \in its THEN Idle ELSE run[w]]
        /\ lost' = lost \cup {run[w].attempt : w \in its}
        /\ UNCHANGED <<task, claims, ops, held, ended>>
-----------------------------------------------------------------------------
(* One execution.                                                          *)

\* _claim_task looks at the status only, not at the time.
Claim(w) ==
    LET t == run[w].task
    IN  /\ run[w].pc = "claim"
        /\ IF task[t].status = "enabled"
           THEN /\ claims < MaxClaims /\ claims' = claims + 1
                /\ task' = [task EXCEPT ![t].status = "running", ![t].attempt = claims + 1]
                /\ run' = [run EXCEPT ![w].pc = "check", ![w].attempt = claims + 1]
           ELSE /\ run' = [run EXCEPT ![w] = Idle]
                /\ UNCHANGED <<task, claims>>
        /\ UNCHANGED <<listed, sched, stopping, ops, stops>> /\ quiet

\* Mutant: a cancelled worker leaves without giving its claim back.
NotReverted(w) == task

\* _revert_claim does not look at the attempt.
Reverted(w) == Updated(run[w].task, [task[run[w].task] EXCEPT !.status = "enabled"])
Check(w) ==
    /\ run[w].pc = "check"
    /\ IF run[w].cancel
       THEN task' = Reverted(w) /\ run' = [run EXCEPT ![w] = Idle]
       ELSE run' = [run EXCEPT ![w].pc = "work"] /\ UNCHANGED task
    /\ UNCHANGED <<listed, sched, stopping, claims, ops, stops>> /\ quiet

Work(w) ==
    /\ run[w].pc = "work"
    /\ \E f \in BOOLEAN : run' = [run EXCEPT ![w].pc = "finish", ![w].failed = f]
    /\ UNCHANGED <<task, listed, sched, stopping, claims, ops, stops>> /\ quiet

\* _finish_task, with more: the schedule has another time.
Finished(t, w, more) ==
    LET cur == task[t]
    IN  IF run[w].cancel THEN [cur EXCEPT !.status = "cancelled", !.why = "stopped", !.next = "none"]
        ELSE IF run[w].failed THEN [cur EXCEPT !.status = "failed"]
        ELSE IF t \notin Recurring \/ cur.runs + 1 >= MaxRuns \/ ~more
        THEN [cur EXCEPT !.runs = @ + 1, !.status = "completed", !.next = "none"]
        ELSE [cur EXCEPT !.runs = @ + 1, !.status = "enabled", !.next = "later"]
\* Mutant: a run that raised is not written down.
FinishUnlessFailed(w, more) ==
    LET t == run[w].task
    IN  /\ run[w].pc = "finish"
        /\ task' = IF task[t].attempt = run[w].attempt /\ ~run[w].failed
                   THEN Updated(t, Finished(t, w, more)) ELSE task
        /\ run' = [run EXCEPT ![w] = Idle]
        /\ UNCHANGED <<listed, sched, stopping, claims, ops, stops>> /\ quiet
\* A refused or failed write ends the worker all the same.
Finish(w, more) ==
    LET t == run[w].task
    IN  /\ run[w].pc = "finish"
        /\ task' = IF task[t].attempt = run[w].attempt
                   THEN Updated(t, Finished(t, w, more)) ELSE task
        /\ run' = [run EXCEPT ![w] = Idle]
        /\ UNCHANGED <<listed, sched, stopping, claims, ops, stops>> /\ quiet

-----------------------------------------------------------------------------
(* Users.                                                                  *)

UserWrites(t, op, new) ==
    /\ op \in UserOps /\ ops < MaxUserOps /\ ops' = ops + 1
    /\ Present(t) /\ Valid(new) /\ new # task[t]
    /\ task' = [task EXCEPT ![t] = new]
    /\ held' = IF new.status = "enabled" THEN held \ {t} ELSE held
    /\ ended' = IF new.status \in {"paused", "cancelled"} /\ op # "webKeep" THEN ended \cup {t}
                ELSE IF new.status = "enabled" THEN ended \ {t} ELSE ended
    /\ UNCHANGED <<listed, sched, stopping, run, claims, stops, lost>>

\* compute_next_run: a task that runs once keeps its time and needs one.
NextTime(t) == IF t \in Recurring THEN "later" ELSE task[t].next

\* /cron-pause, /cron-resume and task_time update, whatever the status is.
SetStatus(t, s) ==
    UserWrites(t, "set", IF s = "enabled"
                         THEN [task[t] EXCEPT !.status = s, !.next = NextTime(t)]
                         ELSE [task[t] EXCEPT !.status = s])

CronCancel(t) == UserWrites(t, "cancel", [task[t] EXCEPT !.status = "cancelled"])

\* The web editor writes a normalised task: no attempt and no stop reason.
WebEdit(t, op, s) ==
    LET maxed == task[t].runs = MaxRuns /\ s \in {"enabled", "paused", "failed"}
        over == t \notin Recurring /\ s \in {"completed", "cancelled"} /\ task[t].next = "none"
    IN  \E time \in {"none", "later", "due"} :
           /\ time \in {NextTime(t), "later"}
           /\ UserWrites(t, op,
                  [status |-> IF maxed THEN "completed" ELSE s,
                   next |-> IF maxed \/ over THEN "none" ELSE time,
                   attempt |-> 0, runs |-> task[t].runs, why |-> "none"])

DeleteTask(t) == UserWrites(t, "delete", [task[t] EXCEPT !.status = "deleted", !.next = "none"])

\* /cron-run: a claim by hand, with no cancel event and outside the slots.
CronRun(p, t, w) ==
    /\ "cronRun" \in UserOps /\ ops < MaxUserOps /\ ops' = ops + 1
    /\ p # Host /\ Present(t) /\ run[w].pc = "idle"
    /\ run' = [run EXCEPT ![w] = [Idle EXCEPT !.pc = "claim", !.task = t, !.manual = TRUE, !.proc = p]]
    /\ UNCHANGED <<task, listed, sched, stopping, claims, stops>> /\ quiet
-----------------------------------------------------------------------------
Scheduler(p) == List(p) \/ (\E t \in Tasks, w \in Workers : Dispatch(p, t, w)) \/ ThreadExit(p)
Worker(w) == Claim(w) \/ Check(w) \/ Work(w) \/ \E more \in BOOLEAN : Finish(w, more)
User(t) == \/ \E s \in {"enabled", "paused"} : SetStatus(t, s) \/ WebEdit(t, "webSet", s)
           \/ CronCancel(t) \/ WebEdit(t, "webKeep", task[t].status) \/ DeleteTask(t)
           \/ \E p \in Procs, w \in Workers : CronRun(p, t, w)

Next == \/ \E t \in Tasks : TimePasses(t) \/ User(t)
        \/ \E p \in Procs : Scheduler(p) \/ BackOff(p) \/ Stop(p) \/ StartScheduler(p) \/ Crash(p)
        \/ \E w \in Workers : Watchdog(w) \/ Worker(w)
        \/ Recover

Spec == Init /\ [][Next]_vars
\* Worker threads run; an execution returns, since provider requests, tools
\* and child agents are time-limited.  Nothing is assumed of users, of the
\* watchdog or of restarts.
FairSpec == Spec /\ \A w \in Workers : WF_vars(Worker(w))
-----------------------------------------------------------------------------
TypeOK ==
    /\ task \in [Tasks -> Task] /\ \A t \in Tasks : Valid(task[t])
    /\ listed \in [Procs -> SUBSET Tasks]
    /\ sched \in [Procs -> {"off", "recovered", "on"}] /\ stopping \in [Procs -> BOOLEAN]
    /\ run \in [Workers -> [pc : {"idle", "claim", "check", "work", "finish"}, task : Tasks,
                            attempt : 0..MaxClaims, cancel : BOOLEAN, failed : BOOLEAN,
                            manual : BOOLEAN, proc : Procs]]
    /\ claims \in 0..MaxClaims /\ ops \in 0..MaxUserOps /\ stops \in 0..MaxStops
    /\ {held, ended} \subseteq SUBSET Tasks /\ lost \subseteq 0..MaxClaims

\* Late, cancelled and stopped workers keep their slot until they return:
\* one process never executes a task twice at a time, nor more tasks than
\* its scheduler may (the host, where nobody starts a task by hand).
SlotsHeld ==
    LET its == {w \in Workers : run[w].pc # "idle" /\ run[w].proc = Host}
    IN  /\ Cardinality(its) <= MaxConcurrent
        /\ \A v, w \in its : run[v].task = run[w].task => v = w

\* A task that says "running" is executed by the worker that claimed it, unless
\* that worker died with its process or an edit that kept "running" has taken
\* its attempt id out of the file (0).
RunningIsExecuted ==
    \A t \in Tasks : task[t].status = "running" =>
        \/ task[t].attempt \in lost \cup {0}
        \/ \E w \in Workers : Executing(w) /\ run[w].task = t /\ run[w].attempt = task[t].attempt

\* An interrupted task may have had its effects: nothing runs it again until
\* a user has enabled it.
NoReplay == [][\A t \in held : task'[t].status = "running" => task[t].status = "running"]_vars

\* Recovery writes "interrupted" only about a task that nothing executes.
InterruptedIsOver ==
    \A t \in Tasks : task[t].status = "paused" /\ task[t].why = "interrupted" =>
        \A w \in Workers : run[w].task = t => ~Executing(w)

\* A task that says "running" names the attempt that may end it.
RunningHasAttempt ==
    \A t \in Tasks : task[t].status = "running" => task[t].attempt # 0

\* A task the user paused or cancelled does not come back by itself.
StopIsKept == \A t \in ended : task[t].status \notin {"enabled", "running"}

\* A worker whose claim has been superseded changes nothing at its end.
StaleAttemptKeepsOut ==
    [][\A w \in Workers :
         Executing(w) /\ run'[w].pc = "idle" /\ task[run[w].task].attempt # run[w].attempt
         => task' = task]_vars

\* Every execution ends, and the task says so: unless its process died, or an
\* edit that kept "running" has taken its attempt id out of the file (0).
RunEnds == \A t \in Tasks :
    task[t].status = "running" ~> \/ task[t].status # "running"
                                  \/ task[t].attempt \in lost \cup {0}
=============================================================================
