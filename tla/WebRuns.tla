------------------------------ MODULE WebRuns -------------------------------
(***************************************************************************)
(* The runs of one web conversation and its long task.  A chat request is  *)
(* registered and gets a worker thread (web/services/chat_stream.py); one  *)
(* worker at a time holds the session lock.  A run that hits the limit on  *)
(* tool calls is continued by another run of the same worker when the user *)
(* has switched long tasks on (run_orchestration.py); the state of the     *)
(* long task is a record of the session (run/long_task).  Meanwhile other  *)
(* threads cancel, poll, switch and guide (run_control.py), the reader of  *)
(* the stream may leave, and the host may die.                             *)
(***************************************************************************)
EXTENDS Integers, FiniteSets

CONSTANTS
    Workers,     \* chat requests, each with its worker thread
    Planned,     \* requests that carry out a foreground task plan
    Controls,    \* threads that cancel or poll the long task
    Guided,      \* requests into whose runs the user sends guidance
    MaxRuns,     \* MAX_LONG_TASK_RUNS (128 in the code)
    MaxFaults    \* bound

Nobody == "nobody"

ASSUME WebRunsAssumption ==
    /\ Nobody \notin Workers
    /\ {Planned, Guided} \subseteq SUBSET Workers
    /\ MaxRuns \in Nat \ {0} /\ MaxFaults \in Nat

VARIABLES
    longTask,   \* record_json.long_task of the session
    activeRuns, \* keys of _active_runs: pairs of a worker and a run of it
    cancelled,  \* workers whose cancel_event is set
    box,        \* per worker: its guidance mailbox
    lock,       \* the session lock
    worker,     \* per worker: where run_source is, run_index and other locals
    control,    \* per control thread: what it is doing
    faults,     \* faults so far
    overtaken   \* observer: polls under way since before the last write of longTask

webVars == <<activeRuns, cancelled, box>>
others == <<control, faults>>
vars == <<longTask, lock, worker, webVars, others, overtaken>>

ActiveStatus   == {"running", "pausing", "cancelling"}
\* "ended" stands for completed, failed and interrupted, which only differ in
\* what the user is shown.
EndStatus      == {"ended", "cancelled", "paused"}
TerminalStatus == {"disabled"} \cup EndStatus

NoRun   == <<"none", 0>>
RunIds  == Workers \X (0..MaxRuns)
RunId(w) == <<w, worker[w].index>>

Active   == longTask.status \in ActiveStatus
EmptyState == [enabled |-> TRUE, status |-> "enabled", cancel |-> FALSE, runs |-> 0,
               current |-> NoRun, fresh |-> FALSE]
Locals(where) == [pc |-> where, index |-> 0, end |-> "none", final |-> "none",
                  wasActive |-> FALSE]
NoBox == [open |-> FALSE, unread |-> FALSE]
Idle == [pc |-> "idle", current |-> NoRun, active |-> FALSE]

Init ==
    /\ longTask = [EmptyState EXCEPT !.enabled = FALSE, !.status = "disabled"]
    /\ activeRuns = {} /\ cancelled = {}
    /\ box = [w \in Workers |-> NoBox]
    /\ lock = Nobody
    /\ worker = [w \in Workers |-> Locals("none")]
    /\ control = [c \in Controls |-> Idle]
    /\ faults = 0
    /\ overtaken = {}

pc(w)    == worker[w].pc
index(w) == worker[w].index
end(w)   == worker[w].end

Step(w, locals) == worker' = [worker EXCEPT ![w] = locals]
Goto(w, where)  == Step(w, [worker[w] EXCEPT !.pc = where])
\* The with-block of the lock is left, by return or by an exception.
Leave(w)       == lock' = Nobody /\ Step(w, Locals("settle"))
\* What is left in a closed mailbox nobody reads.
CloseBox(w)    == box' = [box EXCEPT ![w] = NoBox]
Registered(w)  == \E id \in activeRuns : id[1] = w

\* "fresh": the record was written less than five seconds ago.  Nobody asks
\* when the task is not active.
Written(record) == [record EXCEPT !.fresh = record.status \in ActiveStatus]

FinishLongTask(status) ==
    longTask' = [longTask EXCEPT !.status = status, !.current = NoRun,
                                 !.cancel = (status = "cancelled"), !.fresh = FALSE]
-----------------------------------------------------------------------------
(* stream_chat, and the reader of the stream.                              *)

\* The request has its slot of the user's chat gate; without one it is refused.
StreamChat(w) ==
    /\ pc(w) = "none"
    /\ activeRuns' = activeRuns \cup {<<w, 0>>}
    /\ box' = [box EXCEPT ![w].open = TRUE]
    /\ Goto(w, "lock")
    /\ UNCHANGED <<longTask, lock, cancelled, others>>

-----------------------------------------------------------------------------
(* run_source: the worker.                                                 *)

TakeLock(w) ==
    /\ pc(w) = "lock" /\ lock = Nobody
    /\ lock' = w
    /\ Goto(w, "head")
    /\ UNCHANGED <<longTask, webVars, others>>

\* The worker has read the state: an active task is going to be finished, and
\* then, or at once, the last event is put into the stream.
FinishAndPut(w, status) ==
    Step(w, IF Active THEN [worker[w] EXCEPT !.pc = "finish", !.final = status]
                      ELSE [worker[w] EXCEPT !.pc = "put"])

Exhausted(w) ==
    /\ pc(w) = "head" /\ index(w) >= MaxRuns
    /\ IF longTask.status \in {"running", "pausing"}
       THEN Step(w, [worker[w] EXCEPT !.pc = "finish", !.final = "paused"]) /\ UNCHANGED lock
       ELSE Leave(w)
    /\ UNCHANGED <<longTask, webVars, others>>

\* user_cancelled_terminal_event at the head of the loop.
HeadCancelled(w) ==
    /\ pc(w) = "head" /\ index(w) < MaxRuns /\ w \in cancelled
    /\ FinishAndPut(w, "cancelled")
    /\ UNCHANGED <<longTask, lock, webVars, others>>

\* Between two runs the plan may have been stopped or completed: its status is
\* read from the plan store, which may say anything here.
HeadPlanStopped(w) ==
    /\ pc(w) = "head" /\ 0 < index(w) /\ index(w) < MaxRuns
    /\ w \in Planned /\ w \notin cancelled
    /\ \E status \in EndStatus :
          Step(w, [worker[w] EXCEPT !.pc = "finish", !.final = status])
    /\ UNCHANGED <<longTask, lock, webVars, others>>

StartRun(w) ==
    /\ pc(w) = "head" /\ index(w) < MaxRuns /\ w \notin cancelled
    /\ Step(w, [worker[w] EXCEPT !.pc = "run", !.end = "none"])
    /\ UNCHANGED <<longTask, lock, webVars, others>>

\* The run takes what is in its mailbox, between two requests or when it
\* would otherwise be over.
Drain(w) ==
    /\ pc(w) = "run" /\ box[w].unread
    /\ box' = [box EXCEPT ![w].unread = FALSE]
    /\ UNCHANGED <<longTask, lock, worker, activeRuns, cancelled, others>>

RunOver(w, how) ==
    /\ pc(w) = "run"
    /\ Step(w, [worker[w] EXCEPT !.pc = "decide", !.end = how])
    /\ UNCHANGED <<longTask, lock, activeRuns, cancelled, others>>

\* Mutant: the mailbox is found empty, and closed only with the last event.
CompleteUnclosed(w) == RunOver(w, "completed") /\ ~box[w].unread /\ UNCHANGED box

\* drain_or_close
Complete(w) == RunOver(w, "completed") /\ ~box[w].unread /\ CloseBox(w)

\* The last request a run may make is answered: the run completes, too, but its
\* mailbox is closed as it is.
LastRequest(w) == RunOver(w, "stopped") /\ CloseBox(w)

\* A tool of the run has created a task plan: the run completes then and there,
\* and its mailbox is closed as it is.
PlanBoundary(w) == RunOver(w, "planned") /\ CloseBox(w)

\* A limit that is not continued: nobody closes the mailbox yet.
GuardStops(w) == RunOver(w, "stopped") /\ UNCHANGED box

\* status "limited", stop_reason "max_tool_iterations"
LimitHit(w) == RunOver(w, "limited") /\ CloseBox(w)

\* The engine ends a cancelled run, or its next event becomes that end, ...
CancelNoticed(w) == w \in cancelled /\ RunOver(w, "cancelled") /\ UNCHANGED box

\* ... or put() refuses an event; and the engine may raise.
RunLeft(w) ==
    /\ pc(w) = "run"
    /\ Leave(w)
    /\ UNCHANGED <<longTask, webVars, others>>

\* An error event, or no last event at all.
RunFails(w) ==
    /\ pc(w) = "run"
    /\ FinishAndPut(w, IF w \in cancelled \/ longTask.cancel THEN "cancelled" ELSE "ended")
    /\ UNCHANGED <<longTask, lock, webVars, others>>

Limited(w) == end(w) = "limited"

\* The state of the long task is read, and nothing of it kept but this.
Decide(w) ==
    LET canContinue == /\ Limited(w) /\ w \notin cancelled
                       /\ longTask.enabled /\ ~longTask.cancel
                       /\ longTask.status \notin {"pausing", "cancelling"}
        record(final, continues) ==
            [worker[w] EXCEPT !.pc = IF continues THEN "activate"
                                     ELSE IF Active THEN "record" ELSE "put",
                              !.final = final, !.wasActive = continues /\ Active,
                              !.end = IF @ = "completed" THEN @ ELSE "none"]
    IN
    /\ pc(w) = "decide"
    /\ \/ Limited(w) /\ Step(w, record("paused", canContinue))
       \/ /\ Limited(w) /\ w \in Planned   \* the plan is not running any more
          /\ \E status \in EndStatus : Step(w, record(status, FALSE))
       \/ /\ ~Limited(w)
          /\ Step(w, record(IF end(w) = "cancelled" THEN "cancelled" ELSE "ended", FALSE))
    /\ UNCHANGED <<longTask, lock, webVars, others>>

\* activate_long_task: an active task is taken over as it is, a finished one is
\* replaced by a new one.
Activate(w) ==
    /\ pc(w) = "activate"
    /\ Step(w, [worker[w] EXCEPT !.pc = IF longTask.enabled THEN "count"
                                        ELSE IF worker[w].wasActive THEN "record" ELSE "put",
                                 !.wasActive = FALSE])
    /\ longTask' = IF Active \/ ~longTask.enabled THEN longTask
                   ELSE LET task == IF longTask.status \in TerminalStatus THEN EmptyState
                                    ELSE longTask
                        IN  Written([task EXCEPT !.status = "running", !.current = NoRun,
                                                 !.cancel = FALSE])
    /\ UNCHANGED <<lock, webVars, others>>

RecordRun(w) ==
    longTask' = Written([longTask EXCEPT !.current = RunId(w),
                                         !.runs = IF @ < MaxRuns THEN @ + 1 ELSE @])

Count(w) ==
    /\ pc(w) = "count"
    /\ RecordRun(w)
    /\ Step(w, IF longTask'.runs < MaxRuns
               THEN [worker[w] EXCEPT !.pc = "handoff"]
               ELSE [worker[w] EXCEPT !.pc = "finish", !.final = "paused"])
    /\ UNCHANGED <<lock, webVars, others>>

\* Mutant: the new id replaces the old one.
HandOffRenames(w) ==
    /\ pc(w) = "handoff"
    /\ Step(w, [worker[w] EXCEPT !.pc = "point", !.index = @ + 1])
    /\ box' = [box EXCEPT ![w] = [open |-> TRUE, unread |-> FALSE]]
    /\ activeRuns' = (activeRuns \ {RunId(w)}) \cup {<<w, index(w) + 1>>}
    /\ UNCHANGED <<longTask, lock, cancelled, others>>

\* A new mailbox and a new id; the old ids stay, as aliases.
HandOff(w) ==
    /\ pc(w) = "handoff"
    /\ Step(w, [worker[w] EXCEPT !.pc = "point", !.index = @ + 1])
    /\ box' = [box EXCEPT ![w] = [open |-> TRUE, unread |-> FALSE]]
    /\ activeRuns' = activeRuns \cup {<<w, index(w) + 1>>}
    /\ UNCHANGED <<longTask, lock, cancelled, others>>

\* The new id is written, and then published.
SetCurrentRun(w) ==
    /\ pc(w) = "point"
    /\ longTask' = IF Active THEN Written([longTask EXCEPT !.current = RunId(w)]) ELSE longTask
    /\ Goto(w, "head")
    /\ UNCHANGED <<lock, webVars, others>>

\* put(long_task_update) waits for a slow reader and gives up when the run is
\* cancelled.
Unpublished(w) ==
    /\ pc(w) = "head" /\ index(w) > 0 /\ w \in cancelled
    /\ Leave(w)
    /\ UNCHANGED <<longTask, webVars, others>>

\* The last run is recorded.  The record returned may ask for cancellation.
RecordLast(w) ==
    /\ pc(w) = "record"
    /\ RecordRun(w)
    /\ Step(w, [worker[w] EXCEPT !.pc = "finish",
                                 !.final = IF w \in cancelled \/ longTask.cancel
                                              \/ longTask.status = "cancelling"
                                           THEN "cancelled" ELSE @])
    /\ UNCHANGED <<lock, webVars, others>>

\* finish_long_task asks nothing.
Finish(w) ==
    /\ pc(w) = "finish"
    /\ FinishLongTask(worker[w].final)
    /\ Step(w, [worker[w] EXCEPT !.pc = "put", !.final = "none"])
    /\ UNCHANGED <<lock, webVars, others>>

\* put() of the last event closes the mailbox.
PutLast(w) ==
    /\ pc(w) = "put"
    /\ CloseBox(w) /\ Leave(w)
    /\ UNCHANGED <<longTask, activeRuns, cancelled, others>>

\* An exception elsewhere under the lock: the database is busy, say.
Raises(w) ==
    /\ lock = w /\ pc(w) # "run"
    /\ faults < MaxFaults /\ faults' = faults + 1
    /\ Leave(w)
    /\ UNCHANGED <<longTask, webVars, control>>

\* Mutant: only a cancelled run leaves a task behind.
SettleCancelled(w) ==
    /\ pc(w) = "settle"
    /\ Step(w, IF Active /\ w \in cancelled
               THEN [worker[w] EXCEPT !.pc = "settling", !.final = "cancelled"]
               ELSE [worker[w] EXCEPT !.pc = "remove"])
    /\ UNCHANGED <<longTask, lock, webVars, others>>

\* settle_abandoned_long_task, without the session lock: read ...
Settle(w) ==
    /\ pc(w) = "settle"
    /\ Step(w, IF Active
               THEN [worker[w] EXCEPT !.pc = "settling",
                        !.final = IF w \in cancelled \/ longTask.cancel
                                  THEN "cancelled" ELSE "ended"]
               ELSE [worker[w] EXCEPT !.pc = "remove"])
    /\ UNCHANGED <<longTask, lock, webVars, others>>

\* ... and write, ...
Settling(w) ==
    /\ pc(w) = "settling"
    /\ FinishLongTask(worker[w].final)
    /\ Step(w, Locals("remove"))
    /\ UNCHANGED <<lock, webVars, others>>

\* ... which may fail.
SettlingFails(w) ==
    /\ pc(w) = "settling"
    /\ faults < MaxFaults /\ faults' = faults + 1
    /\ Step(w, Locals("remove"))
    /\ UNCHANGED <<longTask, lock, webVars, control>>

\* The worker is gone, and so are its event, its mailbox and its locals.
Remove(w) ==
    /\ pc(w) = "remove"
    /\ activeRuns' = {id \in activeRuns : id[1] # w}
    /\ box' = [box EXCEPT ![w] = NoBox]
    /\ cancelled' = cancelled \ {w}
    /\ Step(w, Locals("gone"))
    /\ UNCHANGED <<longTask, lock, control, faults>>
-----------------------------------------------------------------------------
(* Controls.                                                               *)

\* set_long_task_enabled
SwitchOff ==
    /\ longTask' = Written([longTask EXCEPT !.enabled = FALSE,
                              !.status = IF @ = "cancelling" THEN "cancelling"
                                         ELSE IF Active THEN "pausing" ELSE "disabled"])
    /\ UNCHANGED <<lock, worker, webVars, others>>

SwitchOn ==
    /\ longTask' =
         Written(IF longTask.status \in TerminalStatus /\ ~longTask.enabled THEN EmptyState
                 ELSE IF longTask.status \in {"running", "pausing"}
                      THEN [longTask EXCEPT !.enabled = TRUE, !.status = "running", !.cancel = FALSE]
                 ELSE [longTask EXCEPT !.enabled = TRUE])
    /\ UNCHANGED <<lock, worker, webVars, others>>

\* cancel_run, by the id of a run or an alias; or the reader closes the stream.
CancelRun(w) ==
    /\ Registered(w) /\ w \notin cancelled
    /\ cancelled' = cancelled \cup {w}
    /\ CloseBox(w)
    /\ UNCHANGED <<longTask, activeRuns, lock, worker, control, faults>>

\* submit_guidance: a closed mailbox sends the message to the next turn.
SubmitGuidance(w) ==
    /\ w \in Guided /\ Registered(w) /\ box[w].open
    /\ box' = [box EXCEPT ![w].unread = TRUE]
    /\ UNCHANGED <<longTask, activeRuns, cancelled, lock, worker, control, faults>>

\* cancel_long_task: the request is written, ...
RequestCancel(c) ==
    LET asked == [longTask EXCEPT !.status = IF Active THEN "cancelling" ELSE "cancelled",
                                  !.cancel = TRUE]
        record == IF Active \/ longTask.status = "paused" THEN Written(asked) ELSE longTask
    IN
    /\ control[c].pc = "idle"
    /\ longTask' = record
    /\ control' = [control EXCEPT ![c] = [Idle EXCEPT !.pc = "event",
                                                      !.active = record.status \in ActiveStatus]]
    /\ UNCHANGED <<webVars, lock, worker, faults>>

\* Mutant: only the worker of the persisted run is told.
CancelCurrent(c) ==
    LET found == {w \in Workers : Registered(w) /\ longTask.current[1] = w} IN
    /\ control[c].pc = "event"
    /\ cancelled' = cancelled \cup found
    /\ box' = [w \in Workers |-> IF w \in found THEN NoBox ELSE box[w]]
    /\ control' = [control EXCEPT ![c] = Idle]
    /\ UNCHANGED <<longTask, activeRuns, lock, worker, faults>>

\* ... the workers of the session are told, ...
CancelEvents(c) ==
    LET found == {w \in Workers : Registered(w)} IN
    /\ control[c].pc = "event"
    /\ cancelled' = cancelled \cup found
    /\ box' = [w \in Workers |-> IF w \in found THEN NoBox ELSE box[w]]
    /\ control' = [control EXCEPT ![c] = IF found = {} /\ control[c].active
                                         THEN [Idle EXCEPT !.pc = "orphan"] ELSE Idle]
    /\ UNCHANGED <<longTask, activeRuns, lock, worker, faults>>

Orphaned == FinishLongTask(IF longTask.status = "cancelling" \/ longTask.cancel
                           THEN "cancelled" ELSE "ended")

\* ... and with none of them the task is settled here, without any grace.
CancelOrphan(c) ==
    /\ control[c].pc = "orphan"
    /\ IF Active THEN Orphaned ELSE UNCHANGED longTask
    /\ control' = [control EXCEPT ![c] = Idle]
    /\ UNCHANGED <<webVars, lock, worker, faults>>

\* long_task_state: the state is read, ...
PollState(c) ==
    /\ control[c].pc = "idle"
    /\ control' = [control EXCEPT ![c] = [Idle EXCEPT !.pc = "look",
                                                      !.current = longTask.current]]
    /\ UNCHANGED <<longTask, webVars, lock, worker, faults>>

\* ... its run looked up among the live ones, ...
PollRuns(c) ==
    LET id == control[c].current
        hasLiveRun == IF id = NoRun THEN activeRuns # {} ELSE id \in activeRuns
    IN
    /\ control[c].pc = "look"
    /\ control' = [control EXCEPT ![c] = IF hasLiveRun THEN Idle
                                         ELSE [Idle EXCEPT !.pc = "reconcile"]]
    /\ UNCHANGED <<longTask, webVars, lock, worker, faults>>

\* Mutant: only a running task is looked after.
ReconcileRunning(c) ==
    /\ control[c].pc = "reconcile"
    /\ IF longTask.status = "running" /\ ~longTask.fresh THEN Orphaned ELSE UNCHANGED longTask
    /\ control' = [control EXCEPT ![c] = Idle]
    /\ UNCHANGED <<webVars, lock, worker, faults>>

\* ... and a task without one is settled, unless it was written just now.
Reconcile(c) ==
    /\ control[c].pc = "reconcile"
    /\ IF Active /\ ~longTask.fresh THEN Orphaned ELSE UNCHANGED longTask
    /\ control' = [control EXCEPT ![c] = Idle]
    /\ UNCHANGED <<webVars, lock, worker, faults>>

\* Five seconds have passed since the record was written.
GraceEnds ==
    /\ longTask.fresh
    /\ longTask' = [longTask EXCEPT !.fresh = FALSE]
    /\ UNCHANGED <<lock, worker, webVars, others>>

\* The host dies and comes back: only the record is left.
HostCrash ==
    /\ \E w \in Workers : Registered(w)
    /\ faults < MaxFaults /\ faults' = faults + 1
    /\ worker' = [w \in Workers |-> Locals(IF pc(w) = "none" THEN "none" ELSE "gone")]
    /\ activeRuns' = {} /\ lock' = Nobody
    /\ box' = [w \in Workers |-> NoBox]
    /\ control' = [c \in Controls |-> Idle]
    /\ cancelled' = {}
    /\ UNCHANGED longTask
-----------------------------------------------------------------------------
RunEnds(w) == \/ Complete(w) \/ LastRequest(w) \/ PlanBoundary(w) \/ GuardStops(w)
              \/ LimitHit(w) \/ CancelNoticed(w) \/ RunFails(w) \/ RunLeft(w)

WorkerStep(w) ==
    \/ TakeLock(w) \/ Exhausted(w) \/ HeadCancelled(w) \/ HeadPlanStopped(w) \/ StartRun(w)
    \/ RunEnds(w) \/ Decide(w) \/ Activate(w) \/ Count(w) \/ HandOff(w) \/ SetCurrentRun(w)
    \/ Unpublished(w) \/ RecordLast(w) \/ Finish(w) \/ PutLast(w)
    \/ Settle(w) \/ Settling(w) \/ Remove(w)

ControlStep(c) == CancelEvents(c) \/ CancelOrphan(c) \/ PollRuns(c) \/ Reconcile(c)

HostStep ==
    \/ \E w \in Workers :
          \/ StreamChat(w) \/ WorkerStep(w) \/ Drain(w)
          \/ Raises(w) \/ SettlingFails(w) \/ CancelRun(w) \/ SubmitGuidance(w)
    \/ \E c \in Controls : RequestCancel(c) \/ PollState(c) \/ ControlStep(c)
    \/ SwitchOn \/ SwitchOff \/ GraceEnds \/ HostCrash

\* The polls that are still under way and have not read what is now written.
\* With a task that is not active they have nothing to do.
Overtaking ==
    overtaken' = {c \in Controls :
                     /\ Active' /\ control'[c].pc \in {"look", "reconcile"}
                     /\ c \in overtaken \/ (longTask' # longTask /\ longTask'.fresh)}

Next == HostStep /\ Overtaking

Spec == Init /\ [][Next]_vars

\* Threads go on, runs end, time passes, and clients poll again and again.  The
\* steps of a worker are finite, so it is enough that some worker goes on.
FairSpec ==
    /\ Spec
    /\ WF_worker(\E w \in Workers : WorkerStep(w))
    /\ \A c \in Controls : WF_control(PollState(c) \/ ControlStep(c))
    /\ WF_longTask(GraceEnds)
-----------------------------------------------------------------------------
TypeOK ==
    /\ longTask \in [enabled : BOOLEAN, cancel : BOOLEAN, runs : 0..MaxRuns, fresh : BOOLEAN,
                     status : {"enabled"} \cup ActiveStatus \cup TerminalStatus,
                     current : {NoRun} \cup RunIds]
    /\ cancelled \subseteq Workers
    /\ activeRuns \subseteq RunIds
    /\ box \in [Workers -> [open : BOOLEAN, unread : BOOLEAN]]
    /\ lock \in Workers \cup {Nobody}
    /\ worker \in [Workers -> [
          pc : {"none", "lock", "head", "run", "decide", "activate", "count", "handoff", "point",
                "record", "finish", "put", "settle", "settling", "remove",
                "gone"},
          index : 0..MaxRuns, wasActive : BOOLEAN,
          end : {"none", "completed", "stopped", "planned", "limited", "cancelled"},
          final : {"none"} \cup EndStatus]]
    /\ control \in [Controls -> [pc : {"idle", "event", "orphan", "look", "reconcile"},
                                 current : {NoRun} \cup RunIds, active : BOOLEAN]]
    /\ faults \in 0..MaxFaults
    /\ overtaken \subseteq Controls

\* Unless a fault came between, a task that is active in the record has a
\* worker that will still settle it, whichever way its runs ended.
ActiveIsOwned ==
    faults = 0 /\ Active => \E w \in Workers : pc(w) \notin {"none", "remove", "gone"}

Dropped(w) == box[w].unread /\ ~box'[w].unread

\* No message that was reported as accepted into a run is left behind when the
\* run ends because its model asks for no more tools - it was read, or sent to
\* the next turn when it was submitted - nor when the next run gets a mailbox.
\* A run that ends with its last request, at a limit, with a plan of its own or
\* by a cancellation leaves what is in its mailbox.
GuidanceRead ==
    [][\A w \in Workers :
         Dropped(w) => worker'[w].end # "completed" /\ pc(w) # "handoff"]_vars

Continuing(w) == pc(w) \in {"handoff", "point"} \/ (index(w) > 0 /\ pc(w) \in {"head", "run"})

\* A poll that is under way for more than five seconds: the record was written
\* after the poll had read it, and nobody has written it for five seconds.
Slow(c) == c \in overtaken /\ ~longTask.fresh

\* Polling never takes the hand-off from one run to the next, nor a later run,
\* for a task whose worker is gone, unless the poll is slower than the grace.
HandOffIsLive ==
    [][\A c \in Controls :
         control[c].pc = "reconcile" /\ control'[c] = Idle /\ Active /\ ~Slow(c)
         /\ (\E w \in Workers : Continuing(w)) => UNCHANGED longTask]_vars

\* While a task is being cancelled no run follows another, once those who asked
\* for it have told the workers.
CancelIsFinal ==
    [][\A w \in Workers :
         pc(w) = "head" /\ worker'[w].pc = "run" /\ index(w) > 0 /\ longTask.status = "cancelling"
           => \E c \in Controls : control[c].pc = "event"]_vars

\* A task does not stay active for ever, whoever dies, unless its record is
\* written again and again: by a user who keeps turning the switch, no worker
\* does.
TaskSettles == []<>(~Active \/ longTask.fresh)

-----------------------------------------------------------------------------
(* What documents and comments say of the program; none of these hold.     *)

\* No run that hits the limit leaves an accepted message behind.
LimitReadsGuidance == [][\A w \in Workers : Dropped(w) => worker'[w].end # "limited"]_vars

\* Nor does a run that ends because a tool has created a task plan.
PlanReadsGuidance == [][\A w \in Workers : Dropped(w) => worker'[w].end # "planned"]_vars

\* The grace protects a hand-off from every poll.
GraceProtects ==
    [][\A c \in Controls :
         control[c].pc = "reconcile" /\ control'[c] = Idle /\ Active
         /\ (\E w \in Workers : Continuing(w)) => UNCHANGED longTask]_vars

\* Once the user has switched long tasks off, no run follows another.
OffIsOff ==
    [][\A w \in Workers : pc(w) = "head" /\ worker'[w].pc = "run" /\ index(w) > 0
         => longTask.status # "pausing"]_vars

\* With long tasks switched on, a run that nobody has cancelled and that hits
\* the limit is continued.
OnIsOn ==
    [][\A w \in Workers :
         /\ pc(w) = "decide" /\ worker'[w].pc # "decide" /\ Limited(w) /\ w \notin cancelled
         /\ w \notin Planned
         /\ longTask.enabled /\ longTask.status \notin {"pausing", "cancelling"}
         => worker'[w].pc # "put"]_vars

\* Polling does not take a task from the worker that has just taken it over.
AdoptionIsLive ==
    [][\A c \in Controls :
         control[c].pc = "reconcile" /\ control'[c] = Idle /\ Active
         /\ (\E w \in Workers : pc(w) = "count") => UNCHANGED longTask]_vars

\* A worker on its way out does not end the task of the one after it.
SettlesOwn ==
    [][\A w \in Workers :
         pc(w) = "settling" /\ Active /\ longTask' # longTask
         => \A v \in Workers \ {w} : ~Continuing(v)]_vars
=============================================================================
