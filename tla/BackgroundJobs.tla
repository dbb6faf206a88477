--------------------------- MODULE BackgroundJobs ---------------------------
(***************************************************************************)
(* Managed shell jobs (src/run/tools/background_*.py and start_background  *)
(* in src/plugins/shell/process_runtime.py).  A tool thread writes the     *)
(* job's record and spawns a worker process; the worker spawns the command *)
(* in a session of its own, watches record and deadline and writes how it  *)
(* ended.  Everybody else only has the record and the process ids in it:   *)
(* threads that query or cancel a job judge from a copy of the record,     *)
(* read outside the lock, which processes still live.  The main loop waits *)
(* for its required jobs and shows the model a receipt of each.            *)
(***************************************************************************)
EXTENDS Integers, FiniteSets

CONSTANTS
    Jobs,
    Required,     \* jobs with completion_mode "required"; the rest: detached
    Clients,      \* threads that query or cancel jobs; Inbox is the main loop
    Inbox,
    MaxActive,    \* MAX_ACTIVE_BACKGROUND_JOBS_PER_USER
    MaxReceipts,  \* receipts per request (4 in the code)
    MaxFaults, MaxRequests    \* bounds

ASSUME JobsAssumption ==
    /\ Jobs # {} /\ Required \subseteq Jobs /\ Inbox \notin Clients
    /\ {MaxActive, MaxReceipts} \subseteq Nat \ {0} /\ {MaxFaults, MaxRequests} \subseteq Nat

VARIABLES
    rec,       \* per job: its record
    starter,   \* per job: the tool call that starts it
    worker,    \* per job: the worker process
    command,   \* per job: the command's process
    late,      \* per job: the worker has terminated the command at its deadline
    expired,   \* per job: its deadline has passed
    client,    \* per thread: the query or cancellation it is busy with
    main,      \* where the main loop is
    delivered, \* jobs whose receipts are in the messages of the request
    toCancel,  \* jobs the cancelled main loop has still to cancel
    requests, faults,   \* requests made and faults happened so far
    shown,     \* observer: jobs whose receipts the model has accepted
    cut        \* observer: jobs whose worker was terminated at the deadline
               \* before it had registered its command

procVars == <<worker, command, late>>
mainVars == <<main, delivered, toCancel, requests, shown>>
vars == <<rec, starter, procVars, expired, client, mainVars, faults, cut>>

ActiveStatus   == {"starting", "running", "cancelling"}
TerminalStatus == {"completed", "failed", "cancelled", "interrupted"}
Record == [status : {"none"} \cup ActiveStatus \cup TerminalStatus,
           pid : BOOLEAN, workerPid : BOOLEAN,      \* the ids are registered
           cancel : BOOLEAN, timeout : BOOLEAN,     \* ..._requested
           handled : BOOLEAN]
NoRecord == [status |-> "none", pid |-> FALSE, workerPid |-> FALSE,
             cancel |-> FALSE, timeout |-> FALSE, handled |-> FALSE]
Threads == Clients \cup {Inbox}
Resting == [pc |-> "idle", job |-> CHOOSE j \in Jobs : TRUE,
            pid |-> FALSE, workerPid |-> FALSE, verdict |-> "none"]

Active(j)   == rec[j].status \in ActiveStatus
Terminal(j) == rec[j].status \in TerminalStatus
Working(j)  == worker[j] \notin {"no", "gone"}
Running(j)  == command[j] = "running"

\* A mutator of update_background_job that leaves terminal records alone.
Settled(j, r) == IF Active(j) THEN [rec EXCEPT ![j] = r] ELSE rec

\* The worker dies; its command, in a session of its own, lives on.
Dead(j) == [worker EXCEPT ![j] = "gone"]

Init ==
    /\ rec = [j \in Jobs |-> NoRecord]
    /\ starter = [j \in Jobs |-> "no"]
    /\ worker = [j \in Jobs |-> "no"]
    /\ command = [j \in Jobs |-> "no"]
    /\ late = [j \in Jobs |-> FALSE] /\ expired = [j \in Jobs |-> FALSE]
    /\ client = [c \in Threads |-> Resting]
    /\ main = "tools" /\ delivered = {} /\ toCancel = {}
    /\ requests = 0 /\ faults = 0 /\ shown = {} /\ cut = {}
-----------------------------------------------------------------------------
(* start_background: a tool call, which may outlive its batch.             *)

Call(j) ==
    /\ main = "tools" /\ starter[j] = "no"
    /\ starter' = [starter EXCEPT ![j] = "called"]
    /\ UNCHANGED <<rec, procVars, expired, client, mainVars, faults, cut>>

\* prepare_background_job: the quota is checked again under the lock, after
\* a sweep over stale jobs (a query like any other, see below).
Prepare(j) ==
    /\ starter[j] = "called"
    /\ IF Cardinality({k \in Jobs : Active(k)}) < MaxActive
       THEN /\ rec' = [rec EXCEPT ![j].status = "starting"]
            /\ starter' = [starter EXCEPT ![j] = "spawn"]
       ELSE /\ starter' = [starter EXCEPT ![j] = "over"]
            /\ UNCHANGED rec
    /\ UNCHANGED <<procVars, expired, client, mainVars, faults, cut>>

SpawnWorker(j) ==
    /\ starter[j] = "spawn"
    /\ starter' = [starter EXCEPT ![j] = "register"]
    /\ worker' = [worker EXCEPT ![j] = "load"]
    /\ UNCHANGED <<rec, command, late, expired, client, mainVars, faults, cut>>

\* mark_worker.  The call then waits for "running", as a client (below).
RegisterWorker(j) ==
    /\ starter[j] = "register"
    /\ rec' = [rec EXCEPT ![j].workerPid = TRUE]
    /\ starter' = [starter EXCEPT ![j] = "over"]
    /\ UNCHANGED <<procVars, expired, client, mainVars, faults, cut>>

\* Spawning or registering raises: the worker is terminated.
StartFails(j) ==
    /\ starter[j] \in {"spawn", "register"}
    /\ faults < MaxFaults /\ faults' = faults + 1
    /\ starter' = [starter EXCEPT ![j] = "over"]
    /\ rec' = Settled(j, [rec[j] EXCEPT !.status = "failed"])
    /\ worker' = IF Working(j) THEN Dead(j) ELSE worker
    /\ UNCHANGED <<command, late, expired, client, mainVars, cut>>
-----------------------------------------------------------------------------
(* The worker process.                                                     *)

\* _finish of a worker that ended with (or without) an error of its own.
Finished(j, error, timedOut) ==
    LET timeout == rec[j].timeout \/ timedOut IN
    Settled(j, [rec[j] EXCEPT
        !.status = IF rec[j].cancel /\ ~timeout THEN "cancelled"
                   ELSE IF command[j] = "ok" /\ ~error /\ ~timeout THEN "completed"
                   ELSE "failed"])

Killed(j) == IF Running(j) THEN [command EXCEPT ![j] = "killed"] ELSE command

WorkerLoad(j) ==
    /\ worker[j] = "load"
    /\ IF Terminal(j) \/ rec[j].cancel
       THEN rec' = Finished(j, FALSE, FALSE) /\ worker' = Dead(j)
       ELSE worker' = [worker EXCEPT ![j] = "popen"] /\ UNCHANGED rec
    /\ UNCHANGED <<starter, command, late, expired, client, mainVars, faults, cut>>

WorkerPopen(j) ==
    /\ worker[j] = "popen"
    /\ command' = [command EXCEPT ![j] = "running"]
    /\ worker' = [worker EXCEPT ![j] = "launched"]
    /\ UNCHANGED <<rec, starter, late, expired, client, mainVars, faults, cut>>

\* The deadline is looked at only now.
WorkerLaunched(j) ==
    /\ worker[j] = "launched"
    /\ IF expired[j]
       THEN /\ command' = Killed(j)
            /\ rec' = Finished(j, TRUE, TRUE)
            /\ worker' = Dead(j)
       ELSE worker' = [worker EXCEPT ![j] = "mark"] /\ UNCHANGED <<rec, command>>
    /\ UNCHANGED <<starter, late, expired, client, mainVars, faults, cut>>

\* mark_running: a terminal record refuses it, and the command is terminated.
WorkerMark(j) ==
    /\ worker[j] = "mark"
    /\ IF Active(j)
       THEN /\ rec' = [rec EXCEPT ![j].pid = TRUE,
                         ![j].status = IF rec[j].cancel THEN "cancelling" ELSE "running"]
            /\ worker' = [worker EXCEPT ![j] = "poll"]
            /\ UNCHANGED command
       ELSE /\ command' = Killed(j)
            /\ worker' = Dead(j)
            /\ UNCHANGED rec
    /\ UNCHANGED <<starter, late, expired, client, mainVars, faults, cut>>

\* Mutant: the loop forgets the deadline.
PollAsked(j) ==
    /\ worker[j] = "poll" /\ Running(j)
    /\ rec[j].cancel \/ rec[j].status = "cancelling"
    /\ command' = Killed(j)
    /\ UNCHANGED <<rec, starter, worker, late, expired, client, mainVars, faults, cut>>

\* The loop terminates the command when asked to or at its deadline.
WorkerPoll(j) ==
    LET asked == rec[j].cancel \/ rec[j].status = "cancelling" IN
    /\ worker[j] = "poll" /\ Running(j)
    /\ asked \/ expired[j]
    /\ command' = Killed(j)
    /\ late' = [late EXCEPT ![j] = ~asked]
    /\ UNCHANGED <<rec, starter, worker, expired, client, mainVars, faults, cut>>

WorkerFinish(j) ==
    /\ worker[j] = "poll" /\ ~Running(j)
    /\ rec' = Finished(j, FALSE, late[j] \/ expired[j])
    /\ worker' = Dead(j)
    /\ UNCHANGED <<starter, command, late, expired, client, mainVars, faults, cut>>

\* The identity of the command cannot be read, or something else raises.
WorkerRaises(j) ==
    /\ worker[j] \in {"popen", "launched", "mark", "poll"}
    /\ faults < MaxFaults /\ faults' = faults + 1
    /\ command' = Killed(j)
    /\ rec' = Finished(j, TRUE, FALSE)
    /\ worker' = Dead(j)
    /\ UNCHANGED <<starter, late, expired, client, mainVars, cut>>

WorkerCrash(j) ==
    /\ Working(j)
    /\ faults < MaxFaults /\ faults' = faults + 1
    /\ worker' = Dead(j)
    /\ UNCHANGED <<rec, starter, command, late, expired, client, mainVars, cut>>

CommandEnds(j) ==
    /\ Running(j)
    /\ \E how \in {"ok", "error"} : command' = [command EXCEPT ![j] = how]
    /\ UNCHANGED <<rec, starter, worker, late, expired, client, mainVars, faults, cut>>

Expire(j) ==
    /\ rec[j].status # "none" /\ ~expired[j]
    /\ expired' = [expired EXCEPT ![j] = TRUE]
    /\ UNCHANGED <<rec, starter, procVars, client, mainVars, faults, cut>>
-----------------------------------------------------------------------------
(* Queries and cancellations.                                              *)

Look(c, j) == [Resting EXCEPT !.pc = "judge", !.job = j,
                              !.pid = rec[j].pid, !.workerPid = rec[j].workerPid]

\* Mutant: a young record is judged like any other.
QueryAtOnce(c, j) ==
    /\ client[c].pc = "idle" /\ Active(j)
    /\ c \in Clients \/ (main = "settle" /\ j \in Required)
    /\ client' = [client EXCEPT ![c] = Look(c, j)]
    /\ UNCHANGED <<rec, starter, procVars, expired, mainVars, faults, cut>>

\* reconcile_background_job reads the record: the main loop (Inbox) does while
\* it waits, the others for a status, a condition or the sweep of prepare.  A
\* record younger than 30 s is left alone, which covers the start of a job;
\* only the main loop looks at it when its deadline is as short.
Query(c, j) ==
    /\ client[c].pc = "idle" /\ Active(j)
    /\ \/ c \in Clients /\ starter[j] = "over"
       \/ c = Inbox /\ main = "settle" /\ j \in Required /\ (starter[j] = "over" \/ expired[j])
    /\ client' = [client EXCEPT ![c] = Look(c, j)]
    /\ UNCHANGED <<rec, starter, procVars, expired, mainVars, faults, cut>>

\* Mutant: only the command is looked for.
LiveCommand(x) == {p \in {"command"} : x.pid /\ Running(x.job)}

\* The processes that live, of those the copy of the record names.
Live(x) == {p \in {"command", "worker"} :
               \/ p = "command" /\ x.pid /\ Running(x.job)
               \/ p = "worker" /\ x.workerPid /\ Working(x.job)}

\* ... and judges which of the processes named there live; past the deadline
\* it terminates them.  Of an unclear identity it keeps its hands off.
Judge(c) ==
    LET x == client[c]
        j == x.job
        live == Live(x)
    IN \E unclear \in SUBSET live :
        LET known == live \ unclear IN
        /\ x.pc = "judge"
        /\ faults' = IF unclear = {} THEN faults ELSE faults + 1
        /\ faults' <= MaxFaults
        /\ IF expired[j]
           THEN /\ command' = IF "command" \in known THEN Killed(j) ELSE command
                /\ worker' = IF "worker" \in known THEN Dead(j) ELSE worker
                /\ cut' = IF "worker" \in known /\ Running(j) /\ "command" \notin live
                          THEN cut \cup {j} ELSE cut
                /\ \E v \in {"dying", "timeout"} :
                      /\ v = "dying" => known # {}
                      /\ client' = [client EXCEPT ![c].pc = "settle", ![c].verdict = v]
           ELSE /\ client' = IF known # {} THEN [client EXCEPT ![c] = Resting]
                             ELSE [client EXCEPT ![c].pc = "settle",
                                     ![c].verdict = IF unclear # {} THEN "unclear" ELSE "gone"]
                /\ UNCHANGED <<worker, command, cut>>
        /\ UNCHANGED <<rec, starter, late, expired, mainVars>>

\* Mutant: a job without processes stays as it is.
NoVerdict(j, verdict) ==
    LET r == rec[j] IN
    CASE verdict = "dying"   -> [r EXCEPT !.status = "cancelling", !.timeout = TRUE]
      [] verdict = "timeout" -> [r EXCEPT !.timeout = TRUE]
      [] verdict \in {"unclear", "gone"} -> r

\* ... and writes its verdict.
Verdict(j, verdict) ==
    LET r == rec[j] IN
    CASE verdict = "dying"   -> [r EXCEPT !.status = "cancelling", !.timeout = TRUE]
      [] verdict = "timeout" -> [r EXCEPT !.status = "failed", !.timeout = TRUE]
      [] verdict = "unclear" -> [r EXCEPT !.status = IF r.cancel THEN "cancelled" ELSE "failed"]
      [] verdict = "gone"    -> [r EXCEPT !.status = IF r.cancel /\ ~r.timeout
                                                     THEN "cancelled" ELSE "interrupted"]

Settle(c) ==
    LET j == client[c].job IN
    /\ client[c].pc = "settle"
    /\ rec' = Settled(j, Verdict(j, client[c].verdict))
    /\ client' = [client EXCEPT ![c] = Resting]
    /\ UNCHANGED <<starter, procVars, expired, mainVars, faults, cut>>

\* cancel_background_job: the request is written, a registered command is
\* terminated, and the record is read once more and judged.
RequestCancel(c, j) ==
    /\ client[c].pc = "idle" /\ Active(j)
    /\ \/ c \in Clients /\ starter[j] = "over"
       \/ c = Inbox /\ main = "cancelling" /\ j \in toCancel
    /\ rec' = [rec EXCEPT ![j].status = "cancelling", ![j].cancel = TRUE]
    /\ client' = [client EXCEPT ![c] = [Look(c, j) EXCEPT !.pc = "kill"]]
    /\ toCancel' = IF c = Inbox THEN toCancel \ {j} ELSE toCancel
    /\ UNCHANGED <<starter, procVars, expired, main, delivered, requests, shown, faults, cut>>

CancelKill(c) ==
    LET j == client[c].job IN
    /\ client[c].pc = "kill"
    /\ \/ client[c].pid /\ Running(j) /\ command' = Killed(j) /\ UNCHANGED faults
       \/ ~(client[c].pid /\ Running(j)) /\ UNCHANGED <<command, faults>>
       \/ /\ client[c].pid /\ Running(j)    \* its identity is unclear
          /\ faults < MaxFaults /\ faults' = faults + 1 /\ UNCHANGED command
    /\ client' = [client EXCEPT ![c] = IF Active(j) THEN Look(c, j) ELSE Resting]
    /\ UNCHANGED <<rec, starter, worker, late, expired, mainVars, cut>>
-----------------------------------------------------------------------------
(* The main loop and its ShellInbox.                                       *)

Ready   == {j \in Jobs : Terminal(j) /\ ~rec[j].handled /\ j \notin delivered}
Pending == {j \in Required : Active(j)}

Take ==
    \E new \in SUBSET Ready :
        /\ Cardinality(new) = IF Cardinality(Ready) > MaxReceipts
                              THEN MaxReceipts ELSE Cardinality(Ready)
        /\ delivered' = delivered \cup new

\* Mutant: a receipt counts as handled when it is sent.
SendHandles ==
    /\ main = "request" /\ requests < MaxRequests /\ requests' = requests + 1
    /\ Take
    /\ rec' = [j \in Jobs |-> IF j \in delivered' THEN [rec[j] EXCEPT !.handled = TRUE] ELSE rec[j]]
    /\ main' = "sent"
    /\ UNCHANGED <<starter, procVars, expired, client, toCancel, shown, faults, cut>>

SendRequest ==
    /\ main = "request" /\ requests < MaxRequests /\ requests' = requests + 1
    /\ Take
    /\ main' = "sent"
    /\ UNCHANGED <<rec, starter, procVars, expired, client, toCancel, shown, faults, cut>>

\* acknowledge() after an accepted response, with tool calls or without.
Accepted ==
    /\ main = "sent"
    /\ rec' = [j \in Jobs |-> IF j \in delivered /\ Terminal(j)
                              THEN [rec[j] EXCEPT !.handled = TRUE] ELSE rec[j]]
    /\ shown' = shown \cup delivered
    /\ delivered' = {}
    /\ main' \in {"tools", "settle"}
    /\ UNCHANGED <<starter, procVars, expired, client, toCancel, requests, faults, cut>>

\* A failed request: the run is tried again with a new inbox.
RequestFails ==
    /\ main = "sent"
    /\ delivered' = {} /\ main' = "request"
    /\ UNCHANGED <<rec, starter, procVars, expired, client, toCancel, requests, shown,
                   faults, cut>>

BatchEnds ==
    /\ main = "tools"
    /\ main' = "request"
    /\ UNCHANGED <<rec, starter, procVars, expired, client, delivered, toCancel, requests,
                   shown, faults, cut>>

\* settle_shell: wait() comes back when something is ready or nothing pending.
SettleShell ==
    /\ main = "settle" /\ client[Inbox].pc = "idle"
    /\ Ready # {} \/ Pending = {}
    /\ Take
    /\ main' = IF Ready # {} THEN "request" ELSE "done"
    /\ UNCHANGED <<rec, starter, procVars, expired, client, toCancel, requests, shown,
                   faults, cut>>

\* ... or when the run is cancelled: what is pending is cancelled too.
CancelWait ==
    /\ main = "settle" /\ client[Inbox].pc = "idle" /\ Pending # {}
    /\ main' = "cancelling" /\ toCancel' = Pending
    /\ UNCHANGED <<rec, starter, procVars, expired, client, delivered, requests, shown,
                   faults, cut>>

SkipOver(j) ==
    /\ main = "cancelling" /\ j \in toCancel /\ ~Active(j)
    /\ toCancel' = toCancel \ {j}
    /\ UNCHANGED <<rec, starter, procVars, expired, client, main, delivered, requests, shown,
                   faults, cut>>

CancelDone ==
    /\ main = "cancelling" /\ toCancel = {} /\ client[Inbox].pc = "idle"
    /\ main' = "cancelled"
    /\ UNCHANGED <<rec, starter, procVars, expired, client, delivered, toCancel, requests,
                   shown, faults, cut>>

\* The host dies and comes back: tool calls, queries and the run are gone, the
\* workers and their commands are not.  The run is tried again.
HostCrash ==
    /\ faults < MaxFaults /\ faults' = faults + 1
    /\ starter' = [j \in Jobs |-> IF starter[j] = "no" THEN "no" ELSE "over"]
    /\ client' = [c \in Threads |-> Resting]
    /\ main' = IF main \in {"done", "cancelled"} THEN main ELSE "request"
    /\ delivered' = {} /\ toCancel' = {}
    /\ UNCHANGED <<rec, procVars, expired, requests, shown, cut>>
-----------------------------------------------------------------------------
StarterStep(j) == Prepare(j) \/ SpawnWorker(j) \/ RegisterWorker(j)
WorkerStep(j) == \/ WorkerLoad(j) \/ WorkerPopen(j) \/ WorkerLaunched(j)
                 \/ WorkerMark(j) \/ WorkerPoll(j) \/ WorkerFinish(j)
ClientStep(c) == Judge(c) \/ Settle(c) \/ CancelKill(c)
MainStep == \/ SettleShell \/ CancelDone
            \/ \E j \in Jobs : SkipOver(j) \/ RequestCancel(Inbox, j)

Next ==
    \/ \E j \in Jobs :
          \/ Call(j) \/ StarterStep(j) \/ StartFails(j)
          \/ WorkerStep(j) \/ WorkerRaises(j) \/ WorkerCrash(j)
          \/ CommandEnds(j) \/ Expire(j)
          \/ \E c \in Threads : Query(c, j)
          \/ \E c \in Clients : RequestCancel(c, j)
    \/ \E c \in Threads : ClientStep(c)
    \/ MainStep \/ SendRequest \/ Accepted \/ RequestFails \/ BatchEnds \/ CancelWait
    \/ HostCrash

Spec == Init /\ [][Next]_vars

\* Threads and processes that are alive go on, time passes, and wait() looks
\* at every pending record again and again.  A command may run for ever.
FairSpec ==
    /\ Spec
    /\ \A j \in Jobs : /\ WF_vars(StarterStep(j)) /\ WF_vars(WorkerStep(j))
                       /\ WF_vars(Expire(j)) /\ SF_vars(Query(Inbox, j))
    /\ \A c \in Threads : WF_vars(ClientStep(c))
    /\ WF_vars(MainStep)
-----------------------------------------------------------------------------
TypeOK ==
    /\ rec \in [Jobs -> Record]
    /\ starter \in [Jobs -> {"no", "called", "spawn", "register", "over"}]
    /\ worker \in [Jobs -> {"no", "load", "popen", "launched", "mark", "poll", "gone"}]
    /\ command \in [Jobs -> {"no", "running", "ok", "error", "killed"}]
    /\ late \in [Jobs -> BOOLEAN] /\ expired \in [Jobs -> BOOLEAN]
    /\ client \in [Threads -> [pc : {"idle", "judge", "settle", "kill"}, job : Jobs,
                               pid : BOOLEAN, workerPid : BOOLEAN,
                               verdict : {"none", "dying", "timeout", "unclear", "gone"}]]
    /\ main \in {"request", "sent", "tools", "settle", "done", "cancelling", "cancelled"}
    /\ {delivered, toCancel, shown, cut} \subseteq SUBSET Jobs
    /\ requests \in 0..MaxRequests /\ faults \in 0..MaxFaults

\* A command that ends by itself in time reports its result, however many
\* queries judged its processes meanwhile from older copies of the record.
ResultKept ==
    \A j \in Jobs :
        command[j] = "ok" /\ worker[j] = "gone" /\ faults = 0
        /\ ~expired[j] /\ ~rec[j].cancel => rec[j].status = "completed"

\* The worker is going to terminate its command: it will not get it
\* registered, or the next round of its loop is the last.
Doomed(j) ==
    \/ worker[j] \in {"launched", "mark"}
    \/ worker[j] = "poll" /\ (expired[j] \/ rec[j].cancel)

\* A record says that the job is over only if its command does not run, or the
\* worker is about to terminate it: unless a fault has kept somebody from
\* seeing the command, or its worker was cut off.
OverIsOver ==
    \A j \in Jobs : Terminal(j) /\ Running(j) => Doomed(j) \/ faults > 0 \/ j \in cut

\* Without a fault no command outlives its worker.
NothingOutlivesItsWorker ==
    faults = 0 => \A j \in Jobs : Running(j) => Working(j)

\* Whatever anybody has written into the record, a worker that lives stops its
\* command by its deadline.
CommandStops == \A j \in Jobs : Running(j) ~> ~Running(j) \/ ~Working(j)

\* The main loop comes back from waiting for its jobs, or cancelling them,
\* although their workers may have died.
Waiting == main \in {"settle", "cancelling"}
WaitReturns == Waiting ~> ~Waiting

\* When the answer is delivered the model has accepted the receipt of every
\* required job, and of those jobs nothing runs that would not be stopped.
DeliveryWaits ==
    [][main # "done" /\ main' = "done" =>
         \A j \in Required : rec[j].status # "none" =>
             /\ Terminal(j) /\ j \in shown
             /\ Running(j) => Doomed(j) \/ faults > 0 \/ j \in cut]_vars
=============================================================================
