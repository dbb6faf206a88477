------------------------------ MODULE TaskPlan ------------------------------
(***************************************************************************)
(* The life of one stored task plan of kemo-agent (src/run/tasks): the     *)
(* executors that claim it and run its steps, and everything that may      *)
(* change it under them - the approve/pause/resume/cancel commands, the    *)
(* edit/reset/rollback corrections, the step_done/step_fail tool calls,    *)
(* deletion, restart recovery and the plan-editing subagent.               *)
(*                                                                         *)
(* PlanStore.update is one transaction under the store lock, so every      *)
(* mutator is one action here.  What is NOT one transaction in the code is *)
(* not one action here: an executor's read, its decision and its next      *)
(* update are separate steps and any other action may come in between.     *)
(* Corrections carry the revision the client saw and are refused when it   *)
(* moved, so each acts on the plan it saw: the revision number is implicit.*)
(***************************************************************************)
EXTENDS Integers, FiniteSets

CONSTANTS
    NumSteps,        \* steps of the plan, in list order 1..NumSteps
    Executors,       \* callers of execute_plan: the scheduler thread, CLI runs
    Graphs,          \* the dependency graphs a plan may be given
    AutoRetryOnFix,  \* config task_plan.auto_retry_on_fix
    MaxUserOps       \* bound: how many outside operations may be applied

ASSUME PlanAssumption ==
    /\ NumSteps \in Nat \ {0}
    /\ Graphs \subseteq [1..NumSteps -> SUBSET (1..NumSteps)]
    /\ AutoRetryOnFix \in BOOLEAN
    /\ MaxUserOps \in Nat

VARIABLES
    plan,      \* the stored row: [status, steps, deps, crit, auto]
    exec,      \* per executor: control point and locals
    target,    \* the revision a user will roll back to, or NoPlan
    draft,     \* the snapshot a plan-editing subagent works from, or NoPlan
    check,     \* a step_done call still has its completion check to do
    deleting,  \* a delete request has passed its status check
    ops        \* outside operations applied so far (bound only)

vars == <<plan, exec, target, draft, check, deleting, ops>>
-----------------------------------------------------------------------------
Step == 1..NumSteps

PlanStatus == {"pending", "approved", "running", "paused",
               "completed", "failed", "cancelled"}
StepStatus == {"pending", "running", "completed", "failed", "skipped",
               "cancelled"}

\* A deleted plan keeps its last contents here under the status "absent".
Plan == [status : PlanStatus \cup {"absent"},
         steps  : [Step -> StepStatus],
         deps   : [Step -> SUBSET Step],
         crit   : SUBSET Step,
         auto   : BOOLEAN]

NoPlan == [none |-> TRUE]

ExecPC == {"idle", "claim", "loop", "mark", "work", "persist", "pause",
           "finish"}
\* deps: the dependencies in the executor's copy of the step it has chosen.
Exec == [pc   : ExecPC,
         step : Step,
         deps : SUBSET Step,
         crit : BOOLEAN,
         out  : {"none", "completed", "failed", "paused"}]
Idle == [pc |-> "idle", step |-> 1, deps |-> {}, crit |-> FALSE, out |-> "none"]

EditableStatus   == {"pending", "approved", "paused", "failed"}
ResettableStatus == EditableStatus \cup {"cancelled"}
RollbackStatus   == {"pending", "paused", "failed"}
Unresolved       == {"failed", "cancelled"}

\* _check_cycle: the dependency graph admits an ordering of the steps.
Acyclic(d) == \E rank \in [Step -> Step] :
                 \A s \in Step : \A t \in d[s] : rank[t] < rank[s]

\* Mutant: a dependency that was tried and failed holds nothing up.
TriedRunnable(p) == {s \in Step : /\ p.steps[s] = "pending"
                                  /\ \A t \in p.deps[s] : p.steps[t] \in {"completed", "failed"}}

\* _next_step: the first pending step whose dependencies have completed.
Runnable(p) == {s \in Step : /\ p.steps[s] = "pending"
                             /\ \A t \in p.deps[s] : p.steps[t] = "completed"}
IsNext(s, p) == s \in Runnable(p) /\ \A t \in Runnable(p) : s <= t

\* Mutants: a failed optional step counts as done; a stalled plan gets a
\* status only steps have.
LooseOutcome(p) ==
    CASE \E s \in p.crit : p.steps[s] = "failed"               -> "paused"
      [] \A s \in Step : p.steps[s] \in {"completed", "skipped", "failed"}
            /\ (p.steps[s] = "failed" => s \notin p.crit)      -> "completed"
      [] OTHER                                                  -> "failed"
SkippingOutcome(p) ==
    CASE \E s \in p.crit : p.steps[s] = "failed"               -> "paused"
      [] \A s \in Step : p.steps[s] \in {"completed", "skipped"} -> "completed"
      [] OTHER                                                  -> "skipped"

\* What execute_plan decides when no step is runnable.
Outcome(p) ==
    CASE \E s \in p.crit : p.steps[s] = "failed"               -> "paused"
      [] \A s \in Step : p.steps[s] \in {"completed", "skipped"} -> "completed"
      [] OTHER                                                  -> "failed"

Exists == plan.status # "absent"
-----------------------------------------------------------------------------
(* Executors: execute_plan, one action per transaction it commits.         *)

Goto(e, pc)    == exec' = [exec EXCEPT ![e].pc = pc]
Return(e)      == exec' = [exec EXCEPT ![e] = Idle]
PlanIs(p)      == plan' = p
SetStatus(st)  == PlanIs([plan EXCEPT !.status = st])
OutsideUnchanged == UNCHANGED <<target, draft, check, deleting, ops>>

\* Mutant: the executor also takes a plan that waits for approval.
EagerReadPlan(e) ==
    /\ exec[e].pc = "idle"
    /\ plan.status \in {"pending", "approved"}
    /\ Goto(e, "claim")
    /\ UNCHANGED plan
    /\ OutsideUnchanged

\* The first read: only an approved plan may be claimed.
ReadPlan(e) ==
    /\ exec[e].pc = "idle"
    /\ plan.status = "approved"
    /\ Goto(e, "claim")
    /\ UNCHANGED plan
    /\ OutsideUnchanged

\* _claim re-checks the status inside its transaction.
Claim(e) ==
    /\ exec[e].pc = "claim"
    /\ IF plan.status = "approved"
       THEN SetStatus("running") /\ Goto(e, "loop")
       ELSE Return(e) /\ UNCHANGED plan
    /\ OutsideUnchanged

\* Each turn re-reads the plan and decides, from that read, what to do next.
Decide(e) ==
    /\ exec[e].pc = "loop"
    /\ IF plan.status # "running"
       THEN Return(e)
       ELSE IF Runnable(plan) # {}
       THEN \E s \in Step :
               /\ IsNext(s, plan)
               /\ exec' = [exec EXCEPT ![e] =
                     [pc |-> "mark", step |-> s, deps |-> plan.deps[s],
                      crit |-> s \in plan.crit, out |-> "none"]]
       ELSE exec' = [exec EXCEPT ![e] = [Idle EXCEPT !.pc = "finish",
                                                     !.out = Outcome(plan)]]
    /\ UNCHANGED plan
    /\ OutsideUnchanged

\* _mark_running: the plan must still run and the step must still be pending.
MarkRunning(e) ==
    /\ exec[e].pc = "mark"
    /\ IF plan.status = "running" /\ plan.steps[exec[e].step] = "pending"
       THEN /\ PlanIs([plan EXCEPT !.steps[exec[e].step] = "running"])
            /\ Goto(e, "work")
       ELSE Return(e) /\ UNCHANGED plan
    /\ OutsideUnchanged

\* The tool or main-agent run of the step ends, well or badly.
Work(e) ==
    /\ exec[e].pc = "work"
    /\ \E out \in {"completed", "failed"} :
          exec' = [exec EXCEPT ![e] = [@ EXCEPT !.pc = "persist",
                                                !.out = out]]
    /\ UNCHANGED plan
    /\ OutsideUnchanged

\* Mutants: the result is stored without looking at the step again; a failed
\* optional step is put back for another try.
BlindPersistResult(e) ==
    /\ exec[e].pc = "persist"
    /\ IF plan.status \in {"running", "paused"}
       THEN /\ PlanIs([plan EXCEPT !.steps[exec[e].step] = exec[e].out])
            /\ IF exec[e].out = "failed" /\ exec[e].crit
               THEN Goto(e, "pause")
               ELSE exec' = [exec EXCEPT ![e] = [Idle EXCEPT !.pc = "loop"]]
       ELSE Return(e) /\ UNCHANGED plan
    /\ OutsideUnchanged
RetryingPersistResult(e) ==
    /\ exec[e].pc = "persist"
    /\ IF /\ plan.status \in {"running", "paused"}
          /\ plan.steps[exec[e].step] = "running"
       THEN /\ PlanIs([plan EXCEPT !.steps[exec[e].step] =
                          IF exec[e].out = "failed" /\ ~exec[e].crit
                          THEN "pending" ELSE exec[e].out])
            /\ IF exec[e].out = "failed" /\ exec[e].crit
               THEN Goto(e, "pause")
               ELSE exec' = [exec EXCEPT ![e] = [Idle EXCEPT !.pc = "loop"]]
       ELSE Return(e) /\ UNCHANGED plan
    /\ OutsideUnchanged

\* _mark_step_result: a stopped plan or a step changed meanwhile refuses it.
PersistResult(e) ==
    /\ exec[e].pc = "persist"
    /\ IF /\ plan.status \in {"running", "paused"}
          /\ plan.steps[exec[e].step] = "running"
       THEN /\ PlanIs([plan EXCEPT !.steps[exec[e].step] = exec[e].out])
            /\ IF exec[e].out = "failed" /\ exec[e].crit
               THEN Goto(e, "pause")
               ELSE exec' = [exec EXCEPT ![e] = [Idle EXCEPT !.pc = "loop"]]
       ELSE Return(e) /\ UNCHANGED plan
    /\ OutsideUnchanged

\* _pause_failed: a critical failure pauses the plan, in its own transaction.
PauseFailed(e) ==
    /\ exec[e].pc = "pause"
    /\ IF plan.status = "running" THEN SetStatus("paused") ELSE UNCHANGED plan
    /\ Return(e)
    /\ OutsideUnchanged

\* The terminal update: its mutator writes the status decided at the read and
\* looks at nothing else.
Finish(e) ==
    /\ exec[e].pc = "finish"
    /\ IF Exists THEN SetStatus(exec[e].out) ELSE UNCHANGED plan
    /\ Return(e)
    /\ OutsideUnchanged

\* The executor ends early: its stop event was set (checked between
\* transactions) or its process died.  What it had stored stays stored.
Halt(e) ==
    /\ exec[e].pc # "idle"
    /\ ops < MaxUserOps /\ ops' = ops + 1
    /\ Return(e)
    /\ UNCHANGED <<plan, target, draft, check, deleting>>

ExecStep(e) == \/ Claim(e) \/ Decide(e) \/ MarkRunning(e) \/ Work(e)
               \/ PersistResult(e) \/ PauseFailed(e) \/ Finish(e)
-----------------------------------------------------------------------------
(* Outside operations: each is one PlanStore transaction.                  *)

Outside == ops < MaxUserOps /\ ops' = ops + 1 /\ UNCHANGED exec
Command == Outside /\ UNCHANGED <<target, draft, check, deleting>>

Approve == Command /\ plan.status = "pending" /\ SetStatus("approved")
PausePlan == Command /\ plan.status \in {"running", "approved"}
                     /\ SetStatus("paused")
ResumePlan == Command /\ plan.status = "paused" /\ SetStatus("approved")

\* cancel_plan looks at no status: pending steps are cancelled and a running
\* step goes back to pending.
CancelPlan ==
    /\ Command
    /\ Exists
    /\ PlanIs([plan EXCEPT
          !.status = "cancelled",
          !.steps = [s \in Step |->
             CASE plan.steps[s] = "pending" -> "cancelled"
               [] plan.steps[s] = "running" -> "pending"
               [] OTHER                     -> plan.steps[s]]])

\* plan_fix_activation_reason: a correction of a stopped plan may reactivate it.
FixActivates == /\ plan.status \in {"paused", "failed"}
                /\ plan.auto \/ AutoRetryOnFix
Activated(st, wanted) ==
    IF wanted /\ \A s \in Step : st[s] \notin Unresolved
    THEN "approved" ELSE plan.status

\* edit_plan_fields: patch the execution fields of steps not yet completed.
EditFields(patched, deps, crit) ==
    LET st == [s \in Step |->
                 IF s \in patched /\ plan.steps[s] \in Unresolved /\ FixActivates
                 THEN "pending" ELSE plan.steps[s]]
    IN /\ Command
       /\ plan.status \in EditableStatus
       /\ \A s \in patched : plan.steps[s] # "completed"
       /\ \A s \in Step \ patched : /\ deps[s] = plan.deps[s]
                                    /\ s \in crit <=> s \in plan.crit
       /\ Acyclic(deps)
       /\ PlanIs([plan EXCEPT !.status = Activated(st, FixActivates),
                              !.steps = st, !.deps = deps, !.crit = crit])

\* reset_plan_step: back to pending; "retry" may also reactivate the plan.
ResetStep(s, retry) ==
    LET st == [plan.steps EXCEPT ![s] = "pending"]
    IN /\ Command
       /\ plan.status \in ResettableStatus
       /\ plan.steps[s] \in Unresolved
       /\ PlanIs([plan EXCEPT !.status = Activated(st, retry /\ FixActivates),
                              !.steps = st])

\* The task_plan tool's step_done; a paused plan accepts it from the run that
\* manages the plan.
StepDone(s) ==
    LET st == [plan.steps EXCEPT ![s] = "completed"]
    IN /\ Outside
       /\ plan.status \in {"approved", "running", "paused"}
       /\ plan.steps[s] \in {"pending", "running"}
       /\ PlanIs([plan EXCEPT
             !.status = IF \A t \in Step : st[t] = "completed" THEN "completed"
                        ELSE IF @ = "approved" THEN "running" ELSE @,
             !.steps = st])
       /\ check' = TRUE
       /\ UNCHANGED <<target, draft, deleting>>

\* _auto_complete_check, a second transaction of the same tool call.
AutoCompleteCheck ==
    /\ check
    /\ check' = FALSE
    /\ IF /\ \A s \in Step : plan.steps[s] = "completed"
          /\ plan.status \in {"approved", "running", "paused"}
       THEN SetStatus("completed") ELSE UNCHANGED plan
    /\ UNCHANGED <<exec, target, draft, deleting, ops>>

StepFail(s) ==
    /\ Command
    /\ plan.status \in {"approved", "running", "paused"}
    /\ plan.steps[s] \in {"pending", "running"}
    /\ PlanIs([plan EXCEPT !.status = "paused", !.steps[s] = "failed"])

\* Every revision is kept; this names the one a later rollback will restore.
RememberRevision ==
    /\ Exists /\ target = NoPlan
    /\ target' = plan
    /\ UNCHANGED <<plan, exec, draft, check, deleting, ops>>

\* rollback: the status stays, completed steps stay, running becomes pending.
Rollback ==
    LET Kept == {s \in Step : plan.steps[s] = "completed"}
        st   == [s \in Step |-> IF s \in Kept THEN "completed"
                                ELSE IF target.steps[s] = "running"
                                THEN "pending" ELSE target.steps[s]]
        deps == [s \in Step |-> IF s \in Kept THEN plan.deps[s]
                                ELSE target.deps[s]]
    IN /\ Outside
       /\ target # NoPlan
       /\ plan.status \in RollbackStatus
       /\ Acyclic(deps)
       /\ PlanIs([plan EXCEPT
             !.steps = st, !.deps = deps, !.auto = target.auto,
             !.crit  = (plan.crit \cap Kept) \cup (target.crit \ Kept)])
       /\ target' = NoPlan
       /\ UNCHANGED <<draft, check, deleting>>

\* delete_plan reads and tests the status first and deletes afterwards.
DeleteCheck ==
    /\ Outside
    /\ Exists /\ plan.status # "running" /\ ~deleting
    /\ deleting' = TRUE
    /\ UNCHANGED <<plan, target, draft, check>>
DeleteCommit ==
    /\ deleting
    /\ deleting' = FALSE
    /\ SetStatus("absent")
    /\ UNCHANGED <<exec, target, draft, check, ops>>

\* The task hub's cleanup deletes only the completed revision it previewed.
CleanupDelete == Command /\ plan.status = "completed" /\ SetStatus("absent")

\* recover_interrupted at a host start: running steps return to pending, but
\* only a running or approved plan is saved (as paused).
Recover ==
    /\ Command
    /\ IF /\ \E s \in Step : plan.steps[s] = "running"
          /\ plan.status \in {"running", "approved"}
       THEN PlanIs([plan EXCEPT
               !.status = "paused",
               !.steps = [s \in Step |-> IF plan.steps[s] = "running"
                                         THEN "pending" ELSE plan.steps[s]]])
       ELSE UNCHANGED plan
-----------------------------------------------------------------------------
(* The plan-editing subagent: it reads the plan, thinks for minutes, and   *)
(* its whole draft is stored without comparing revisions.                  *)

BeginDraft ==
    /\ Outside
    /\ draft = NoPlan /\ plan.status \in EditableStatus
    /\ draft' = plan
    /\ UNCHANGED <<plan, target, check, deleting>>

\* Mutant: the draft's steps are all stored as not yet run.
ForgetfulCommitDraft ==
    /\ draft # NoPlan
    /\ draft' = NoPlan
    /\ IF Exists
       THEN PlanIs([draft EXCEPT !.steps = [s \in Step |-> "pending"]])
       ELSE UNCHANGED plan
    /\ UNCHANGED <<exec, target, check, deleting, ops>>

\* persist_agent_result: status and completed steps as the draft saw them,
\* every other step as the subagent wrote it (pending, its status by default),
\* auto_accept from the configuration.
CommitDraft ==
    /\ draft # NoPlan
    /\ draft' = NoPlan
    /\ IF Exists
       THEN \E auto \in BOOLEAN, crit \in SUBSET Step, deps \in Graphs :
            /\ Acyclic(deps)
            /\ \A s \in Step : draft.steps[s] = "completed" =>
                  deps[s] = draft.deps[s] /\ (s \in crit <=> s \in draft.crit)
            /\ PlanIs([draft EXCEPT
                  !.steps = [s \in Step |-> IF draft.steps[s] = "completed"
                                            THEN "completed" ELSE "pending"],
                  !.deps = deps, !.crit = crit, !.auto = auto])
       ELSE UNCHANGED plan
    /\ UNCHANGED <<exec, target, check, deleting, ops>>
-----------------------------------------------------------------------------
\* A created plan: no step has run; auto_accept plans are born approved.
Init ==
    /\ \E auto \in BOOLEAN, crit \in SUBSET Step,
          deps \in Graphs :
          /\ Acyclic(deps)
          /\ plan = [status |-> IF auto THEN "approved" ELSE "pending",
                     steps |-> [s \in Step |-> "pending"],
                     deps |-> deps, crit |-> crit, auto |-> auto]
    /\ exec = [e \in Executors |-> Idle]
    /\ target = NoPlan /\ draft = NoPlan
    /\ check = FALSE /\ deleting = FALSE
    /\ ops = 0

ExecNext == \E e \in Executors : ReadPlan(e) \/ ExecStep(e) \/ Halt(e)

CommandNext == \/ Approve \/ PausePlan \/ ResumePlan \/ CancelPlan
               \/ \E patched \in SUBSET Step, crit \in SUBSET Step,
                     deps \in Graphs :
                     EditFields(patched, deps, crit)
               \/ \E s \in Step : \/ \E retry \in BOOLEAN : ResetStep(s, retry)
                                  \/ StepDone(s)
                                  \/ StepFail(s)
               \/ AutoCompleteCheck
               \/ RememberRevision \/ Rollback
               \/ DeleteCheck \/ DeleteCommit \/ CleanupDelete
               \/ Recover

Next == ExecNext \/ CommandNext
DraftNext == Next \/ BeginDraft \/ CommitDraft

\* A live executor takes its next step; nobody has to give it a plan.
Fairness == \A e \in Executors : WF_vars(ExecStep(e))

\* Spec: everything but the plan-editing subagent.  DraftSpec adds it.
Spec == Init /\ [][Next]_vars
FairSpec == Spec /\ Fairness
DraftSpec == Init /\ [][DraftNext]_vars
-----------------------------------------------------------------------------
TypeOK ==
    /\ plan \in Plan
    /\ exec \in [Executors -> Exec]
    /\ target \in Plan \cup {NoPlan}
    /\ draft \in Plan \cup {NoPlan}
    /\ check \in BOOLEAN /\ deleting \in BOOLEAN
    /\ ops \in Nat

(* A plan is reported completed only when every step has completed or was  *)
(* skipped, although execute_plan writes that status from a stale read.    *)
CompletedMeansDone ==
    plan.status = "completed" =>
        \A s \in Step : plan.steps[s] \in {"completed", "skipped"}

(* Nothing of an unapproved plan is executing: no executor holds it and no *)
(* step of it runs.                                                        *)
ApprovalGate ==
    plan.status = "pending" =>
        /\ \A e \in Executors : exec[e].pc = "idle"
        /\ \A s \in Step : plan.steps[s] = "pending"

(* A completed step stays completed, whatever corrections, recoveries,     *)
(* late results and cancellations follow.                                  *)
CompletedStepsStay ==
    [][\A s \in Step : plan.steps[s] = "completed" =>
                       plan'.steps[s] = "completed"]_vars

(* With the plan-editing subagent at work a completed step is lost only    *)
(* if the draft being stored was taken before the step completed.          *)
DraftKeepsWhatItSaw ==
    [][\A s \in Step :
          /\ plan.steps[s] = "completed"
          /\ draft # NoPlan => draft.steps[s] = "completed"
          => plan'.steps[s] = "completed"]_vars

(* A step starts only when the dependencies with which it was chosen have  *)
(* completed, although between the choice and the start the plan may have  *)
(* been stopped, corrected, rolled back and started again by others.       *)
DependenciesRespected ==
    [][\A e \in Executors :
          exec[e].pc = "mark" /\ exec'[e].pc = "work" =>
              \A t \in exec[e].deps : plan'.steps[t] = "completed"]_vars

(* An executor that took the plan returns: it neither loops on a plan that *)
(* gets nowhere nor repeats a step it has already run.                     *)
ExecutorReturns ==
    \A e \in Executors : exec[e].pc # "idle" ~> exec[e].pc = "idle"
-----------------------------------------------------------------------------
(* What the documentation says of the plan, refuted by the runs that name  *)
(* these properties.                                                       *)

(* lifecycle.md: a resumed plan is claimed by its only executor.           *)
Busy(e) == exec[e].pc \notin {"idle", "claim"}
OnlyExecutor == \A e, f \in Executors : Busy(e) /\ Busy(f) => e = f

(* lifecycle.md: runs are triggered step by step in the order of the       *)
(* dependencies, those the plan has when the step starts included.         *)
EditedDependenciesRespected ==
    [][\A s \in Step :
          plan.steps[s] = "pending" /\ plan'.steps[s] = "running" =>
              \A t \in plan'.deps[s] : plan'.steps[t] = "completed"]_vars

(* lifecycle.md lists no move out of cancelled.                            *)
CancelledIsFinal ==
    [][plan.status = "cancelled" => plan'.status \in {"cancelled", "absent"}]_vars

(* lifecycle.md: a plan fails because a dependency is broken, so some step  *)
(* has failed, been skipped or been cancelled when it is declared failed.   *)
FailedMeansBroken ==
    [][plan.status # "failed" /\ plan'.status = "failed" =>
        \E s \in Step : plan'.steps[s] \in {"failed", "skipped", "cancelled"}]_vars

(* lifecycle.md, restart: no step is left running by recovery.             *)
RecoveryLeavesNoneRunning ==
    [][Recover => \A s \in Step : plan'.steps[s] # "running"]_vars

(* delete_plan refuses to delete a running plan.                           *)
RunningNotDeleted ==
    [][plan.status = "running" => plan'.status # "absent"]_vars
=============================================================================
