-------------------------- MODULE TaskCoordinator --------------------------
(***************************************************************************)
(* The completion barrier of a conversation (TaskCoordinator in            *)
(* src/run/agents/task_ledger.py, and its callers in src/run/conversation).*)
(* The main loop alternates provider requests and tool batches.  Tool      *)
(* calls may dispatch or resume subagents on the scheduler below; a call   *)
(* runs on a tool thread and may reach the scheduler late, even in a later *)
(* attempt.  Results are put into the messages of the next request and are *)
(* acknowledged when the provider has accepted it.  The main task may      *)
(* complete only when every child is over and acknowledged, and when it    *)
(* fails or is cancelled it waits until nothing of them executes.          *)
(***************************************************************************)
EXTENDS AgentScheduler

CONSTANTS
    Notified,     \* results per notification (4 in the code)
    MaxAttempts   \* bound: how often the request is tried

ASSUME CoordinatorAssumption == Notified \in Nat \ {0} /\ MaxAttempts \in Nat

VARIABLES
    root,       \* the main task's row in the ledger: its status
    attempt,    \* ... and its attempt_id; the coordinator of the last one runs
    main,       \* where the main loop is
    started,    \* started of that coordinator
    outcome,    \* what finish() was called with when the loop gave up
    toCancel,   \* children that finish() has still to cancel
    delivered,  \* delivered, with the round of each result put into messages
    shown,      \* the round of the last result in an accepted request
    call        \* per task: the attempt of a dispatch call on its tool thread

mainVars == <<root, attempt, main, started, outcome, toCancel, delivered, shown, call>>
allVars  == <<vars, mainVars>>
-----------------------------------------------------------------------------
\* The rows whose parent is this main task.
Children == {t \in Owned : record[t].status # "none"}
Pending  == {t \in Children : ~Over(record[t])}
Unread   == {t \in Children : /\ Over(record[t]) /\ ~record[t].handled
                              /\ delivered[t] = 0}

CoordinatorInit ==
    /\ Init
    /\ root = "none" /\ attempt = 0 /\ main = "idle" /\ started = FALSE
    /\ outcome = "none" /\ toCancel = {}
    /\ delivered = [t \in Owned |-> 0] /\ shown = [t \in Owned |-> 0]
    /\ call = [t \in Owned |-> 0]

\* A request (or its retry) builds a coordinator; create_root reopens the row.
BeginAttempt ==
    /\ main = "idle" /\ attempt < MaxAttempts /\ root # "completed"
    /\ attempt' = attempt + 1
    /\ started' = (root # "none")
    /\ root' = IF root = "none" THEN "none" ELSE "running"
    /\ main' = "request"
    /\ delivered' = [t \in Owned |-> 0]
    /\ UNCHANGED <<vars, outcome, toCancel, shown, call>>

\* notifications(): up to Notified unread results go into the messages.
\* The main loop goes on to found or, without any, to none.
Notify(found, none) ==
    \E new \in SUBSET Unread :
        /\ Cardinality(new) = IF Cardinality(Unread) > Notified
                              THEN Notified ELSE Cardinality(Unread)
        /\ delivered' = [t \in Owned |-> IF t \in new THEN record[t].run
                                         ELSE delivered[t]]
        /\ root' = IF new = {} THEN root ELSE "merging"
        /\ main' = IF new = {} THEN none ELSE found

\* Mutant: what is put into a request counts as handled at once.
RequestHandles ==
    /\ main = "request"
    /\ Notify("provider", "provider")
    /\ record' = [t \in Tasks |-> IF t \in Owned /\ delivered'[t] # 0
                                  THEN [record[t] EXCEPT !.handled = TRUE] ELSE record[t]]
    /\ UNCHANGED <<tasks, taskVars, submit, queue, turns, ctlVars,
                   attempt, started, outcome, toCancel, shown, call>>

RequestProvider ==
    /\ main = "request"
    /\ Notify("provider", "provider")
    /\ UNCHANGED <<vars, attempt, started, outcome, toCancel, shown, call>>

\* An accepted response acknowledges what its request delivered.
Acknowledge ==
    LET read == {t \in Owned : delivered[t] # 0} IN
    /\ record' = [t \in Tasks |-> IF t \in read THEN [record[t] EXCEPT !.handled = TRUE]
                                  ELSE record[t]]
    /\ shown' = [t \in Owned |-> IF t \in read THEN delivered[t] ELSE shown[t]]
    /\ delivered' = [t \in Owned |-> 0]

Accepted ==
    /\ main = "provider"
    /\ Acknowledge
    /\ main' \in {"tools", "settle"}
    /\ UNCHANGED <<tasks, taskVars, submit, queue, turns, ctlVars,
                   root, attempt, started, outcome, toCancel, call>>

\* A failed request, an exhausted iteration budget or the user's stop.  What
\* was delivered is of no use any more: only the next coordinator reads on.
GiveUp ==
    /\ main \in {"request", "provider", "tools", "waiting"}
    /\ \E o \in {"failed", "cancelled"} : outcome' = o
    /\ main' = "abort"
    /\ delivered' = [t \in Owned |-> 0]
    /\ UNCHANGED <<vars, root, attempt, started, toCancel, shown, call>>
-----------------------------------------------------------------------------
(* A tool batch.                                                          *)
\* ownership(): the first dispatch creates the main task's row.  The call is
\* for a new task, or to resume one the model knows.
Dispatch(t) ==
    /\ main = "tools" /\ call[t] = 0
    /\ submit[t] = "no" \/ t \in Children
    /\ call' = [call EXCEPT ![t] = attempt]
    /\ started' = TRUE
    /\ root' = IF started THEN root ELSE "running"
    /\ UNCHANGED <<vars, attempt, main, outcome, toCancel, delivered, shown>>

\* Mutant: the check of the main task's status is left out.
AttemptOpen(t) == call[t] = attempt

\* register() and resume_task() look at the main task's row in their transaction.
RootOpen(t) == root \in {"running", "merging"} /\ call[t] = attempt

\* The tool thread reaches the scheduler, which accepts or refuses.
CallReaches(t) ==
    /\ call[t] # 0
    /\ call' = [call EXCEPT ![t] = 0]
    /\ \/ RootOpen(t) /\ (SubmitRegister(t) \/ Resume(t))
       \/ UNCHANGED vars
    /\ UNCHANGED <<root, attempt, main, started, outcome, toCancel, delivered, shown>>

\* A status, call or resume call returned the result of a task that is over:
\* acknowledge_sync puts it among the delivered ones.
SyncResult(t) ==
    LET status == IF tasks[t] = 0 THEN record[t].status
                  ELSE obj[<<t, tasks[t]>>].status IN
    /\ main = "tools" /\ t \in Children
    /\ status \in {"completed", "timed_out", "tool_limit", "failed"}
    /\ Over(record[t]) /\ delivered[t] = 0
    /\ delivered' = [delivered EXCEPT ![t] = record[t].run]
    /\ UNCHANGED <<vars, root, attempt, main, started, outcome, toCancel, shown, call>>

BatchEnds ==
    /\ main = "tools"
    /\ main' = "request"
    /\ UNCHANGED <<vars, root, attempt, started, outcome, toCancel, delivered, shown, call>>
-----------------------------------------------------------------------------
(* settle_children(): a response without tool calls.                      *)
Settling ==
    /\ main = "settle"
    /\ IF started /\ Pending # {}
       THEN root' = "waiting_children" /\ main' = "waiting"
       ELSE main' = "settled" /\ UNCHANGED root
    /\ UNCHANGED <<vars, attempt, started, outcome, toCancel, delivered, shown, call>>

\* wait(): something to read, nothing left to wait for, or the user's guidance.
WaitEnds ==
    /\ main = "waiting"
    /\ \/ Unread # {} /\ root' = "merging"
       \/ Unread = {} /\ Pending = {} /\ UNCHANGED root
    /\ main' = "settled"
    /\ UNCHANGED <<vars, attempt, started, outcome, toCancel, delivered, shown, call>>

WaitGuided ==
    /\ main = "waiting" /\ Unread = {} /\ Pending # {}
    /\ root' = "running" /\ main' = "settled"
    /\ UNCHANGED <<vars, attempt, started, outcome, toCancel, delivered, shown, call>>

Settled ==
    /\ main = "settled"
    /\ \/ Notify("request", "complete")
       \/ main' = "request" /\ UNCHANGED <<root, delivered>>  \* the user's guidance
    /\ UNCHANGED <<vars, attempt, started, outcome, toCancel, shown, call>>

\* finish("completed"): one transaction, or the run fails.
Complete ==
    /\ main = "complete"
    /\ IF ~started THEN main' = "idle" /\ UNCHANGED <<root, outcome>>
       ELSE IF \A t \in Children : Over(record[t]) /\ record[t].handled
       THEN root' = "completed" /\ main' = "idle" /\ UNCHANGED outcome
       ELSE main' = "abort" /\ outcome' = "failed" /\ UNCHANGED root
    /\ UNCHANGED <<vars, attempt, started, toCancel, delivered, shown, call>>
-----------------------------------------------------------------------------
(* finish() with any other status.                                        *)
Abort ==
    /\ main = "abort"
    /\ IF started
       THEN root' = "cancelling" /\ toCancel' = Pending /\ main' = "cancelling"
            /\ UNCHANGED outcome
       ELSE main' = "idle" /\ outcome' = "none" /\ UNCHANGED <<root, toCancel>>
    /\ UNCHANGED <<vars, attempt, started, delivered, shown, call>>

\* Mutant: the first refusal ends the loop.
CancelOnly(t) ==
    /\ main = "cancelling" /\ t \in toCancel
    /\ toCancel' = toCancel \ {t}
    /\ Cancel(t)
    /\ UNCHANGED <<root, attempt, main, started, outcome, delivered, shown, call>>

\* A child that is over by now, or unknown to the scheduler, is skipped.
CancelChild(t) ==
    /\ main = "cancelling" /\ t \in toCancel
    /\ toCancel' = toCancel \ {t}
    /\ \/ Cancel(t)
       \/ ~Cancellable(t) /\ UNCHANGED vars
    /\ UNCHANGED <<root, attempt, main, started, outcome, delivered, shown, call>>

\* Mutant: a deadline ends the wait.
DrainedByDeadline ==
    /\ main = "cancelling" /\ toCancel = {}
    /\ root' = outcome /\ main' = "idle" /\ outcome' = "none"
    /\ UNCHANGED <<vars, attempt, started, toCancel, delivered, shown, call>>

Drained ==
    /\ main = "cancelling" /\ toCancel = {} /\ Pending = {}
    /\ root' = outcome /\ main' = "idle" /\ outcome' = "none"
    /\ UNCHANGED <<vars, attempt, started, toCancel, delivered, shown, call>>
-----------------------------------------------------------------------------
MainLoop == \/ RequestProvider \/ Accepted \/ BatchEnds \/ Settling \/ WaitEnds
            \/ Settled \/ Complete \/ Abort \/ Drained
            \/ \E t \in Owned : CancelChild(t)

CoordinatorNext ==
    \/ MainLoop \/ BeginAttempt \/ GiveUp \/ WaitGuided
    \/ \E t \in Owned : Dispatch(t) \/ CallReaches(t) \/ SyncResult(t)
    \/ (Threads \/ \E t \in Owned : Cancel(t)) /\ UNCHANGED mainVars

CoordinatorSpec == CoordinatorInit /\ [][CoordinatorNext]_allVars

\* The threads of the scheduler, and the main loop while it settles or drains;
\* a provider request or a tool batch may take for ever.
CoordinatorFairSpec ==
    /\ CoordinatorSpec
    /\ WF_vars(DropCancelled \/ Start)
    /\ \A t \in Owned : WF_vars(SubmitStep(t))
    /\ \A o \in Objects : /\ WF_vars(Executor(o))
                          /\ WF_vars(ChildEnds(o) \/ Callback(o))
    /\ WF_allVars(WaitEnds \/ Abort \/ Drained \/ \E t \in Owned : CancelChild(t))
-----------------------------------------------------------------------------
CoordinatorTypeOK ==
    /\ TypeOK
    /\ root \in {"none", "running", "waiting_children", "merging", "cancelling",
                 "completed", "failed", "cancelled"}
    /\ attempt \in 0..MaxAttempts
    /\ main \in {"idle", "request", "provider", "tools", "settle", "waiting",
                 "settled", "complete", "abort", "cancelling"}
    /\ started \in BOOLEAN
    /\ outcome \in {"none", "failed", "cancelled"}
    /\ toCancel \subseteq Owned
    /\ delivered \in [Owned -> 0..MaxRounds]
    /\ shown \in [Owned -> 0..MaxRounds]
    /\ call \in [Owned -> 0..MaxAttempts]

\* A main task that reports completion has no child left that runs or could
\* still run, and none whose result is not acknowledged; it stays so, although
\* tool threads of this or an earlier attempt may still reach the scheduler.
CompletionBarrier ==
    root = "completed" =>
        /\ \A t \in Children : Over(record[t]) /\ record[t].handled
        /\ \A o \in Objects : o[1] \in Owned => child[o] # "running"

\* A main task that failed or was cancelled leaves nothing executing either.
QuietAfterFailure ==
    root \in {"failed", "cancelled"} =>
        \A o \in Objects : o[1] \in Owned => /\ child[o] # "running"
                                             /\ pc[o] \notin {"enter", "run", "handler"}

\* A child counts as handled only when the model has accepted a request that
\* showed it the result of the child's last round.
HandledMeansShown ==
    \A t \in Children : record[t].handled => shown[t] = record[t].run

\* What the module's first lines promise: "required children and
\* unacknowledged notifications form a completion barrier".
NotificationsFormBarrier ==
    root = "completed" => \A t \in Children : shown[t] = record[t].run

\* finish() and wait() return: their children always come to an end.
MainReturns == /\ (main = "cancelling") ~> (main = "idle")
               /\ (main = "waiting") ~> (main # "waiting")
=============================================================================
