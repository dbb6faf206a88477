--------------------------- MODULE TaskPlanProofs ---------------------------
(***************************************************************************)
(* Theorems about TaskPlan for any number of steps, any executors and any  *)
(* number of outside operations: type correctness, that no completed step  *)
(* is ever lost, that a plan reported completed is done although that      *)
(* status is written from a stale read, and that nothing of an unapproved  *)
(* plan executes.                                                          *)
(***************************************************************************)
EXTENDS TaskPlan, TLAPS

(* An executor about to store a result has one.                            *)
Results ==
    \A e \in Executors :
       /\ exec[e].pc = "persist" => exec[e].out \in {"completed", "failed"}
       /\ exec[e].pc = "finish" => exec[e].out \in {"completed", "failed", "paused"}

(* An executor about to write "completed" saw every step completed, one    *)
(* about to start a step saw its dependencies completed, and nothing ever  *)
(* skips a step.                                                           *)
Decided ==
    /\ draft = NoPlan
    /\ Results
    /\ \A e \in Executors :
          /\ exec[e].pc = "finish" /\ exec[e].out = "completed" =>
                \A s \in Step : plan.steps[s] = "completed"
          /\ exec[e].pc = "mark" =>
                \A s \in exec[e].deps : plan.steps[s] = "completed"
NoneSkipped ==
    \A s \in Step : /\ plan.steps[s] # "skipped"
                    /\ target # NoPlan => target.steps[s] # "skipped"
AllDone ==
    plan.status = "completed" => \A s \in Step : plan.steps[s] = "completed"

(* A rollback cannot bring executed steps into an unapproved plan: while   *)
(* the plan is pending, every revision of it has only pending steps.       *)
PendingTarget ==
    plan.status = "pending" /\ target # NoPlan =>
        \A s \in Step : target.steps[s] = "pending"

DoneInv == TypeOK /\ Decided /\ NoneSkipped /\ AllDone

-----------------------------------------------------------------------------
(* The bound on outside operations and the constants' shapes.              *)
LEMMA StepFacts == /\ 1 \in Step
                   /\ Graphs \subseteq [Step -> SUBSET Step]
  BY PlanAssumption DEF Step

LEMMA IdleType == Idle \in Exec
  BY StepFacts DEF Idle, Exec, ExecPC

(* What an executor decides from the plan it read.                         *)
LEMMA OutcomeType ==
    ASSUME NEW p
    PROVE  /\ Outcome(p) \in {"completed", "failed", "paused"}
           /\ Outcome(p) = "completed" =>
                 \A s \in Step : p.steps[s] \in {"completed", "skipped"}
  BY DEF Outcome

-----------------------------------------------------------------------------
(* Every step keeps the state well typed and the executors' decisions      *)
(* sound: a completed step stays completed under each of them.             *)
LEMMA DoneInit == Init => DoneInv
  <1> SUFFICES ASSUME Init PROVE DoneInv
    OBVIOUS
  <1>1. TypeOK
    <2>1. plan \in Plan
      BY StepFacts DEF Init, Plan, PlanStatus, StepStatus
    <2> QED BY <2>1, IdleType DEF Init, TypeOK
  <1>2. Decided
    BY DEF Init, Decided, Results, Idle
  <1>3. NoneSkipped /\ AllDone
    BY DEF Init, NoneSkipped, AllDone, NoPlan
  <1> QED BY <1>1, <1>2, <1>3 DEF DoneInv

LEMMA KeepStep ==
    ASSUME TypeOK, [Next]_vars
    PROVE  \A s \in Step : plan.steps[s] = "completed" =>
                           plan'.steps[s] = "completed"
  <1> SUFFICES ASSUME NEW s \in Step, plan.steps[s] = "completed"
               PROVE  plan'.steps[s] = "completed"
    OBVIOUS
  <1> USE DEF PlanIs, SetStatus
  <1>0. plan \in Plan /\ plan.steps \in [Step -> StepStatus]
    BY DEF TypeOK, Plan
  <1>1. CASE UNCHANGED vars
    BY <1>1 DEF vars
  <1>2. ASSUME NEW e \in Executors, ReadPlan(e) \/ Claim(e) \/ Decide(e)
                                    \/ Work(e) \/ PauseFailed(e) \/ Finish(e)
                                    \/ Halt(e)
        PROVE  plan'.steps = plan.steps
    BY <1>0, <1>2 DEF ReadPlan, Claim, Decide, Work, PauseFailed, Finish, Halt,
                      Plan
  <1>3. ASSUME NEW e \in Executors, MarkRunning(e) \/ PersistResult(e)
        PROVE  plan'.steps[s] = "completed"
    BY <1>0, <1>3 DEF MarkRunning, PersistResult, Plan
  <1>4. CASE Approve \/ PausePlan \/ ResumePlan \/ AutoCompleteCheck
             \/ RememberRevision \/ DeleteCheck \/ DeleteCommit \/ CleanupDelete
    BY <1>0, <1>4 DEF Approve, PausePlan, ResumePlan, AutoCompleteCheck,
       RememberRevision, DeleteCheck, DeleteCommit, CleanupDelete, Plan
  <1>5. CASE CancelPlan
    <2>1. plan'.steps = [t \in Step |->
             CASE plan.steps[t] = "pending" -> "cancelled"
               [] plan.steps[t] = "running" -> "pending"
               [] OTHER                     -> plan.steps[t]]
      BY <1>0, <1>5 DEF CancelPlan, Plan
    <2> QED BY <2>1
  <1>8. CASE Recover
    <2>1. \/ plan'.steps = [t \in Step |-> IF plan.steps[t] = "running"
                                           THEN "pending" ELSE plan.steps[t]]
          \/ plan' = plan
      BY <1>0, <1>8 DEF Recover, Plan
    <2> QED BY <2>1
  <1>9. CASE Rollback
    <2>1. plan'.steps = [t \in Step |->
             IF t \in {u \in Step : plan.steps[u] = "completed"}
             THEN "completed"
             ELSE IF target.steps[t] = "running" THEN "pending"
                                                 ELSE target.steps[t]]
      BY <1>0, <1>9 DEF Rollback, Plan
    <2> QED BY <2>1
  <1>6. ASSUME NEW patched \in SUBSET Step, NEW crit \in SUBSET Step,
               NEW deps \in Graphs, EditFields(patched, deps, crit)
        PROVE  plan'.steps[s] = "completed"
    BY <1>0, <1>6 DEF EditFields, Unresolved, Plan
  <1>7. ASSUME NEW t \in Step, NEW retry \in BOOLEAN,
               ResetStep(t, retry) \/ StepDone(t) \/ StepFail(t)
        PROVE  plan'.steps[s] = "completed"
    <2>2. CASE ResetStep(t, retry)
      BY <1>0, <2>2 DEF ResetStep, Unresolved, Plan
    <2>3. CASE StepDone(t)
      <3>1. plan'.steps = [plan.steps EXCEPT ![t] = "completed"]
        BY <1>0, <2>3 DEF StepDone, Plan
      <3> QED BY <1>0, <3>1
    <2>4. CASE StepFail(t)
      BY <1>0, <2>4 DEF StepFail, Plan
    <2> QED BY <1>7, <2>2, <2>3, <2>4
  <1> QED
    BY <1>1, <1>2, <1>3, <1>4, <1>5, <1>6, <1>7, <1>8,
       <1>9
    DEF Next, ExecNext, ExecStep, CommandNext

-----------------------------------------------------------------------------
(* Only the plan, the executor that steps and, for Remember and Rollback,  *)
(* the target can change type; each executor step is one case.             *)
LEMMA TypeStep ==
    ASSUME TypeOK, Results, [Next]_vars
    PROVE  TypeOK'
  <1> USE DEF PlanIs, SetStatus, OutsideUnchanged, Outside, Command
  <1>0. /\ plan \in Plan /\ exec \in [Executors -> Exec]
        /\ target \in Plan \cup {NoPlan} /\ draft \in Plan \cup {NoPlan}
        /\ check \in BOOLEAN /\ deleting \in BOOLEAN /\ ops \in Nat
    BY DEF TypeOK
  <1>a. ASSUME NEW st \in PlanStatus \cup {"absent"}
        PROVE  [plan EXCEPT !.status = st] \in Plan
    BY <1>0 DEF Plan
  <1>b. ASSUME NEW st \in [Step -> StepStatus],
               NEW ps \in PlanStatus \cup {"absent"}
        PROVE  [plan EXCEPT !.status = ps, !.steps = st] \in Plan
    BY <1>0 DEF Plan
  <1>c. ASSUME NEW e \in Executors, NEW x \in Exec
        PROVE  [exec EXCEPT ![e] = x] \in [Executors -> Exec]
    BY <1>0
  <1>d. ASSUME NEW e \in Executors, NEW pc \in ExecPC, Goto(e, pc)
        PROVE  exec' \in [Executors -> Exec]
    BY <1>0, <1>d DEF Goto, Exec
  <1>e. ASSUME NEW e \in Executors, Return(e)
        PROVE  exec' \in [Executors -> Exec]
    BY <1>0, <1>e, IdleType DEF Return
  <1>1. CASE UNCHANGED vars
    BY <1>0, <1>1 DEF vars, TypeOK
  <1>2. ASSUME NEW e \in Executors, ReadPlan(e) PROVE TypeOK'
    <2>1. exec' \in [Executors -> Exec]
      BY <1>2, <1>d DEF ReadPlan, ExecPC
    <2> QED BY <1>0, <1>2, <2>1 DEF ReadPlan, TypeOK
  <1>3. ASSUME NEW e \in Executors, Claim(e) PROVE TypeOK'
    <2>1. exec' \in [Executors -> Exec]
      BY <1>3, <1>d, <1>e DEF Claim, ExecPC
    <2>2. plan' \in Plan
      BY <1>0, <1>3, <1>a DEF Claim, PlanStatus
    <2> QED BY <1>0, <1>3, <2>1, <2>2 DEF Claim, TypeOK
  <1>4. ASSUME NEW e \in Executors, Decide(e) PROVE TypeOK'
    <2>1. ASSUME NEW s \in Step
          PROVE  [pc |-> "mark", step |-> s, deps |-> plan.deps[s],
                  crit |-> s \in plan.crit, out |-> "none"] \in Exec
      <3>1. plan.deps[s] \in SUBSET Step
        BY <1>0 DEF Plan
      <3> QED BY <3>1 DEF Exec, ExecPC
    <2>2. [Idle EXCEPT !.pc = "finish", !.out = Outcome(plan)] \in Exec
      BY IdleType, OutcomeType DEF Idle, Exec, ExecPC
    <2>3. exec' \in [Executors -> Exec]
      BY <1>4, <1>c, <1>e, <2>1, <2>2 DEF Decide
    <2> QED BY <1>0, <1>4, <2>3 DEF Decide, TypeOK
  <1>5. ASSUME NEW e \in Executors, MarkRunning(e) PROVE TypeOK'
    <2>1. exec' \in [Executors -> Exec]
      BY <1>5, <1>d, <1>e DEF MarkRunning, ExecPC
    <2>2. plan' \in Plan
      BY <1>0, <1>5 DEF MarkRunning, Plan, StepStatus
    <2> QED BY <1>0, <1>5, <2>1, <2>2 DEF MarkRunning, TypeOK
  <1>6. ASSUME NEW e \in Executors, Work(e) PROVE TypeOK'
    <2>1. exec' \in [Executors -> Exec]
      <3>1. ASSUME NEW out \in {"completed", "failed"}
            PROVE  [exec[e] EXCEPT !.pc = "persist", !.out = out] \in Exec
        BY <1>0 DEF Exec, ExecPC
      <3> QED BY <1>6, <1>c, <3>1 DEF Work
    <2> QED BY <1>0, <1>6, <2>1 DEF Work, TypeOK
  <1>7. ASSUME NEW e \in Executors, PersistResult(e) PROVE TypeOK'
    <2>1. exec' \in [Executors -> Exec]
      <3>1. [Idle EXCEPT !.pc = "loop"] \in Exec
        BY IdleType DEF Idle, Exec, ExecPC
      <3> QED BY <1>7, <1>c, <1>d, <1>e, <3>1 DEF PersistResult, ExecPC
    <2>2. plan' \in Plan
      <3>1. exec[e].out \in StepStatus
        BY <1>7 DEF Results, PersistResult, StepStatus
      <3>2. exec[e].step \in Step
        BY <1>0 DEF Exec
      <3> QED BY <1>0, <1>7, <3>1, <3>2 DEF PersistResult, Plan
    <2> QED BY <1>0, <1>7, <2>1, <2>2 DEF PersistResult, TypeOK
  <1>8. ASSUME NEW e \in Executors, PauseFailed(e) PROVE TypeOK'
    <2>1. plan' \in Plan
      BY <1>0, <1>8, <1>a DEF PauseFailed, PlanStatus
    <2> QED BY <1>0, <1>8, <1>e, <2>1 DEF PauseFailed, TypeOK
  <1>9. ASSUME NEW e \in Executors, Finish(e) PROVE TypeOK'
    <2>1. exec[e].out \in PlanStatus
      BY <1>9 DEF Results, Finish, PlanStatus
    <2>2. plan' \in Plan
      BY <1>0, <1>9, <1>a, <2>1 DEF Finish
    <2> QED BY <1>0, <1>9, <1>e, <2>2 DEF Finish, TypeOK
  <1>10. ASSUME NEW e \in Executors, Halt(e) PROVE TypeOK'
    BY <1>0, <1>10, <1>e DEF Halt, TypeOK
  <1>11. CASE Approve \/ PausePlan \/ ResumePlan \/ CleanupDelete
    <2>1. plan' \in Plan
      BY <1>11, <1>a DEF Approve, PausePlan, ResumePlan, CleanupDelete, PlanStatus
    <2> QED BY <1>0, <1>11, <2>1
            DEF Approve, PausePlan, ResumePlan, CleanupDelete, TypeOK
  <1>12. CASE AutoCompleteCheck \/ DeleteCommit
    <2>1. plan' \in Plan
      BY <1>0, <1>12, <1>a DEF AutoCompleteCheck, DeleteCommit, PlanStatus
    <2> QED BY <1>0, <1>12, <2>1 DEF AutoCompleteCheck, DeleteCommit, TypeOK
  <1>13. CASE DeleteCheck \/ RememberRevision
    <2>1. CASE DeleteCheck
      BY <1>0, <2>1 DEF DeleteCheck, TypeOK
    <2>2. CASE RememberRevision
      BY <1>0, <2>2 DEF RememberRevision, TypeOK
    <2> QED BY <1>13, <2>1, <2>2
  <1>14. CASE CancelPlan
    <2> DEFINE st == [s \in Step |->
             CASE plan.steps[s] = "pending" -> "cancelled"
               [] plan.steps[s] = "running" -> "pending"
               [] OTHER                     -> plan.steps[s]]
    <2>1. st \in [Step -> StepStatus]
      BY <1>0 DEF Plan, StepStatus
    <2>2. plan' = [plan EXCEPT !.status = "cancelled", !.steps = st]
      BY <1>14 DEF CancelPlan
    <2> HIDE DEF st
    <2>3. plan' \in Plan
      BY <1>b, <2>1, <2>2 DEF PlanStatus
    <2> QED BY <1>0, <1>14, <2>3 DEF CancelPlan, TypeOK
  <1>15. CASE Recover
    <2> DEFINE st == [s \in Step |-> IF plan.steps[s] = "running"
                                     THEN "pending" ELSE plan.steps[s]]
    <2>1. st \in [Step -> StepStatus]
      BY <1>0 DEF Plan, StepStatus
    <2>2. \/ plan' = [plan EXCEPT !.status = "paused", !.steps = st]
          \/ plan' = plan
      BY <1>15 DEF Recover
    <2> HIDE DEF st
    <2>3. plan' \in Plan
      BY ZenonT(60), <1>0, <1>b, <2>1, <2>2 DEF PlanStatus
    <2> QED BY <1>0, <1>15, <2>3 DEF Recover, TypeOK
  <1>16. CASE Rollback
    <2> DEFINE Kept == {s \in Step : plan.steps[s] = "completed"}
               st   == [s \in Step |-> IF s \in Kept THEN "completed"
                                ELSE IF target.steps[s] = "running"
                                THEN "pending" ELSE target.steps[s]]
               deps == [s \in Step |-> IF s \in Kept THEN plan.deps[s]
                                ELSE target.deps[s]]
               crit == (plan.crit \cap Kept) \cup (target.crit \ Kept)
    <2>0. target \in Plan
      BY <1>0, <1>16 DEF Rollback
    <2>1. st \in [Step -> StepStatus]
      BY <1>0, <2>0 DEF Plan, StepStatus
    <2>2. deps \in [Step -> SUBSET Step] /\ crit \in SUBSET Step /\ target.auto \in BOOLEAN
      BY <1>0, <2>0 DEF Plan
    <2>3. plan' = [plan EXCEPT !.steps = st, !.deps = deps, !.auto = target.auto, !.crit = crit]
      BY <1>16 DEF Rollback
    <2> HIDE DEF st, deps, crit
    <2>4. plan' \in Plan
      BY <1>0, <2>1, <2>2, <2>3 DEF Plan
    <2> QED BY <1>0, <1>16, <2>4 DEF Rollback, TypeOK
  <1>17. ASSUME NEW patched \in SUBSET Step, NEW crit \in SUBSET Step,
                NEW deps \in Graphs, EditFields(patched, deps, crit)
         PROVE  TypeOK'
    <2> DEFINE st == [s \in Step |->
                 IF s \in patched /\ plan.steps[s] \in Unresolved /\ FixActivates
                 THEN "pending" ELSE plan.steps[s]]
    <2>1. st \in [Step -> StepStatus]
      BY <1>0 DEF Plan, StepStatus
    <2>2. Activated(st, FixActivates) \in PlanStatus \cup {"absent"}
      BY <1>0 DEF Activated, Plan, PlanStatus
    <2>3. plan' = [plan EXCEPT !.status = Activated(st, FixActivates),
                               !.steps = st, !.deps = deps, !.crit = crit]
      BY <1>17 DEF EditFields
    <2>4. deps \in [Step -> SUBSET Step]
      BY StepFacts
    <2> HIDE DEF st
    <2>5. plan' \in Plan
      BY <1>0, <2>1, <2>2, <2>3, <2>4 DEF Plan
    <2> QED BY <1>0, <1>17, <2>5 DEF EditFields, TypeOK
  <1>18. ASSUME NEW t \in Step, NEW retry \in BOOLEAN, ResetStep(t, retry)
         PROVE  TypeOK'
    <2> DEFINE st == [plan.steps EXCEPT ![t] = "pending"]
    <2>1. st \in [Step -> StepStatus]
      BY <1>0 DEF Plan, StepStatus
    <2>2. Activated(st, retry /\ FixActivates) \in PlanStatus \cup {"absent"}
      BY <1>0 DEF Activated, Plan, PlanStatus
    <2>3. plan' = [plan EXCEPT !.status = Activated(st, retry /\ FixActivates),
                               !.steps = st]
      BY <1>18 DEF ResetStep
    <2> HIDE DEF st
    <2>4. plan' \in Plan
      BY <1>b, <2>1, <2>2, <2>3
    <2> QED BY <1>0, <1>18, <2>4 DEF ResetStep, TypeOK
  <1>19. ASSUME NEW t \in Step, StepDone(t)
         PROVE  TypeOK'
    <2> DEFINE st == [plan.steps EXCEPT ![t] = "completed"]
               ps == IF \A u \in Step : st[u] = "completed" THEN "completed"
                     ELSE IF plan.status = "approved" THEN "running"
                     ELSE plan.status
    <2>1. st \in [Step -> StepStatus]
      BY <1>0 DEF Plan, StepStatus
    <2>2. ps \in PlanStatus \cup {"absent"}
      BY <1>0 DEF Plan, PlanStatus
    <2>3. plan' = [plan EXCEPT !.status = ps, !.steps = st]
      BY <1>19 DEF StepDone
    <2> HIDE DEF st, ps
    <2>4. plan' \in Plan
      BY <1>b, <2>1, <2>2, <2>3
    <2> QED BY <1>0, <1>19, <2>4 DEF StepDone, TypeOK
  <1>20. ASSUME NEW t \in Step, StepFail(t)
         PROVE  TypeOK'
    <2>1. plan' \in Plan
      BY <1>0, <1>20 DEF StepFail, Plan, PlanStatus, StepStatus
    <2> QED BY <1>0, <1>20, <2>1 DEF StepFail, TypeOK
  <1> QED
    BY <1>1, <1>2, <1>3, <1>4, <1>5, <1>6, <1>7, <1>8, <1>9, <1>10, <1>11,
       <1>12, <1>13, <1>14, <1>15, <1>16, <1>17, <1>18, <1>19, <1>20
    DEF Next, ExecNext, ExecStep, CommandNext

-----------------------------------------------------------------------------
(* What an executor does next is decided by Decide, from the plan as it    *)
(* is, and a result to store comes from Work.                              *)
LEMMA NewDecision ==
    ASSUME TypeOK, [Next]_vars, NEW f \in Executors
    PROVE  \/ exec'[f] = exec[f]
           \/ exec'[f].pc \notin {"mark", "persist", "finish"}
           \/ exec'[f].pc = "persist" /\ exec'[f].out \in {"completed", "failed"}
           \/ /\ exec'[f].pc = "mark" /\ plan' = plan
              /\ \A t \in exec'[f].deps : plan.steps[t] = "completed"
           \/ exec'[f].pc = "finish" /\ plan' = plan /\ exec'[f].out = Outcome(plan)
  <1> DEFINE Move == \/ exec'[f] = exec[f]
                     \/ exec'[f].pc \notin {"mark", "persist", "finish"}
                     \/ exec'[f].pc = "persist" /\ exec'[f].out \in {"completed", "failed"}
                     \/ /\ exec'[f].pc = "mark" /\ plan' = plan
                        /\ \A t \in exec'[f].deps : plan.steps[t] = "completed"
                     \/ exec'[f].pc = "finish" /\ plan' = plan /\ exec'[f].out = Outcome(plan)
  <1>0. exec \in [Executors -> Exec] /\ plan \in Plan
    BY DEF TypeOK
  <1>1. CASE CommandNext \/ UNCHANGED vars
    <2>1. exec' = exec
      BY <1>1 DEF CommandNext, Command, Outside, Approve, PausePlan, ResumePlan,
         CancelPlan, EditFields, ResetStep, StepDone, StepFail, AutoCompleteCheck,
         RememberRevision, Rollback, DeleteCheck, DeleteCommit, CleanupDelete,
         Recover, vars
    <2> QED BY <2>1
  <1>2. ASSUME NEW e \in Executors, ReadPlan(e) \/ ExecStep(e) \/ Halt(e)
        PROVE  Move
    <2>1. CASE f # e
      <3>1. exec'[f] = exec[f]
        BY <1>0, <1>2, <2>1 DEF ReadPlan, ExecStep, Claim, Decide, MarkRunning,
           Work, PersistResult, PauseFailed, Finish, Halt, Goto, Return
      <3> QED BY <3>1
    <2>2. CASE f = e
      <3>1. ASSUME Return(e)
            PROVE  exec'[e].pc = "idle"
        BY <1>0, <3>1 DEF Return, Idle
      <3>2. ASSUME NEW pc, Goto(e, pc)
            PROVE  exec'[e].pc = pc
        BY <1>0, <3>2 DEF Goto, Exec
      <3>3. CASE ReadPlan(e) \/ Claim(e) \/ MarkRunning(e) \/ PauseFailed(e)
                 \/ Finish(e) \/ Halt(e)
        <4>1. exec'[e].pc \in {"claim", "loop", "work", "idle"}
          BY <3>1, <3>2, <3>3
          DEF ReadPlan, Claim, MarkRunning, PauseFailed, Finish, Halt
        <4> QED BY <2>2, <4>1
      <3>4. CASE Work(e)
        <4>1. PICK out \in {"completed", "failed"} :
                 exec' = [exec EXCEPT ![e] = [@ EXCEPT !.pc = "persist",
                                                       !.out = out]]
          BY <3>4 DEF Work
        <4>2. exec'[e].pc = "persist" /\ exec'[e].out = out
          BY <1>0, <4>1 DEF Exec
        <4> QED BY <2>2, <4>2
      <3>5. CASE PersistResult(e)
        <4>1. \/ Return(e) \/ Goto(e, "pause")
              \/ exec' = [exec EXCEPT ![e] = [Idle EXCEPT !.pc = "loop"]]
          BY <3>5 DEF PersistResult
        <4>2. exec'[e].pc \in {"idle", "pause", "loop"}
          BY <1>0, <4>1, <3>1, <3>2 DEF Idle
        <4> QED BY <2>2, <4>2
      <3>6. CASE Decide(e)
        <4>1. CASE Return(e)
          BY <2>2, <4>1, <3>1
        <4>2. ASSUME NEW s \in Step, IsNext(s, plan),
                     exec' = [exec EXCEPT ![e] =
                        [pc |-> "mark", step |-> s, deps |-> plan.deps[s],
                         crit |-> s \in plan.crit, out |-> "none"]]
              PROVE  Move
          <5>1. exec'[e].pc = "mark" /\ exec'[e].deps = plan.deps[s]
            BY <1>0, <4>2
          <5>2. \A t \in plan.deps[s] : plan.steps[t] = "completed"
            BY <4>2 DEF IsNext, Runnable
          <5>3. plan' = plan
            BY <3>6 DEF Decide
          <5> QED BY <2>2, <5>1, <5>2, <5>3
        <4>3. CASE exec' = [exec EXCEPT ![e] = [Idle EXCEPT !.pc = "finish",
                                                     !.out = Outcome(plan)]]
          <5>1. exec'[e].pc = "finish" /\ exec'[e].out = Outcome(plan)
            BY <1>0, <4>3 DEF Idle
          <5>2. plan' = plan
            BY <3>6 DEF Decide
          <5> QED BY <2>2, <5>1, <5>2
        <4> QED BY <3>6, <4>1, <4>2, <4>3 DEF Decide
      <3> QED BY <1>2, <3>3, <3>4, <3>5, <3>6 DEF ExecStep
    <2> QED BY <2>1, <2>2
  <1> QED BY <1>1, <1>2 DEF Next, ExecNext

LEMMA ResultsStep ==
    ASSUME TypeOK, Results, [Next]_vars
    PROVE  Results'
  <1> SUFFICES ASSUME NEW f \in Executors
               PROVE  /\ exec'[f].pc = "persist" => exec'[f].out \in {"completed", "failed"}
                      /\ exec'[f].pc = "finish" =>
                            exec'[f].out \in {"completed", "failed", "paused"}
    BY DEF Results
  <1> QED BY NewDecision, OutcomeType DEF Results

(* An old decision stays right because completed steps stay completed.     *)
LEMMA DecidedStep ==
    ASSUME DoneInv, [Next]_vars
    PROVE  Decided'
  <1>0. TypeOK /\ Results /\ draft = NoPlan
    BY DEF DoneInv, Decided
  <1>1. draft' = NoPlan
    <2>1. ASSUME NEW e \in Executors, ReadPlan(e) \/ ExecStep(e) \/ Halt(e)
          PROVE  draft' = draft
      BY <2>1 DEF ReadPlan, ExecStep, Claim, Decide, MarkRunning, Work,
         PersistResult, PauseFailed, Finish, Halt, OutsideUnchanged
    <2>2. ASSUME CommandNext
          PROVE  draft' = draft
      BY <2>2 DEF CommandNext, Command, Outside, Approve, PausePlan, ResumePlan,
         CancelPlan, EditFields, ResetStep, StepDone, StepFail, AutoCompleteCheck,
         RememberRevision, Rollback, DeleteCheck, DeleteCommit, CleanupDelete,
         Recover
    <2>3. ASSUME UNCHANGED vars
          PROVE  draft' = draft
      BY <2>3 DEF vars
    <2>4. draft' = draft
      BY <2>1, <2>2, <2>3 DEF Next, ExecNext
    <2> QED BY <1>0, <2>4
  <1>2. ASSUME NEW f \in Executors
        PROVE  /\ exec'[f].pc = "finish" /\ exec'[f].out = "completed" =>
                     \A s \in Step : plan'.steps[s] = "completed"
               /\ exec'[f].pc = "mark" =>
                     \A s \in exec'[f].deps : plan'.steps[s] = "completed"
    <2>1. CASE exec'[f] = exec[f]
      <3>1. exec[f].deps \subseteq Step
        BY <1>0 DEF TypeOK, Exec
      <3> QED BY <1>0, <2>1, <3>1, KeepStep DEF DoneInv, Decided
    <2>2. CASE exec'[f].pc = "finish" /\ plan' = plan /\ exec'[f].out = Outcome(plan)
      <3>1. Outcome(plan) = "completed" => \A s \in Step : plan.steps[s] = "completed"
        BY OutcomeType DEF DoneInv, NoneSkipped
      <3> QED BY <2>2, <3>1
    <2>3. CASE /\ exec'[f].pc = "mark" /\ plan' = plan
               /\ \A t \in exec'[f].deps : plan.steps[t] = "completed"
      BY <2>3
    <2> QED BY <1>0, <2>1, <2>2, <2>3, NewDecision
  <1> QED BY <1>0, <1>1, <1>2, ResultsStep DEF Decided

-----------------------------------------------------------------------------
(* Nothing in the code skips a step, and a rollback restores only what a   *)
(* step once was.                                                          *)
LEMMA SkipStep ==
    ASSUME DoneInv, [Next]_vars
    PROVE  NoneSkipped'
  <1> USE DEF PlanIs, SetStatus, OutsideUnchanged, Outside, Command
  <1>0. /\ plan \in Plan /\ plan.steps \in [Step -> StepStatus]
        /\ \A s \in Step : plan.steps[s] # "skipped"
        /\ target # NoPlan => \A s \in Step : target.steps[s] # "skipped"
    BY DEF DoneInv, TypeOK, NoneSkipped, Plan
  <1> SUFFICES ASSUME NEW s \in Step
               PROVE  /\ plan'.steps[s] # "skipped"
                      /\ target' # NoPlan => target'.steps[s] # "skipped"
    BY DEF NoneSkipped
  <1> DEFINE Fine == /\ plan'.steps[s] # "skipped"
                     /\ target' # NoPlan => target'.steps[s] # "skipped"
  <1>1. CASE UNCHANGED vars
    BY <1>0, <1>1 DEF vars
  <1>2. ASSUME NEW e \in Executors, ReadPlan(e) \/ Claim(e) \/ Decide(e)
                                    \/ Work(e) \/ PauseFailed(e) \/ Finish(e)
                                    \/ Halt(e) \/ MarkRunning(e)
        PROVE  Fine
    BY <1>0, <1>2 DEF ReadPlan, Claim, Decide, Work, PauseFailed, Finish, Halt,
       MarkRunning, Plan
  <1>3. ASSUME NEW e \in Executors, PersistResult(e)
        PROVE  Fine
    <2>1. exec[e].out # "skipped"
      BY <1>3 DEF PersistResult, DoneInv, Decided, Results
    <2> QED BY <1>0, <1>3, <2>1 DEF PersistResult, Plan
  <1>4. CASE Approve \/ PausePlan \/ ResumePlan \/ AutoCompleteCheck
             \/ RememberRevision \/ DeleteCheck \/ DeleteCommit \/ CleanupDelete
    BY <1>0, <1>4 DEF Approve, PausePlan, ResumePlan, AutoCompleteCheck,
       RememberRevision, DeleteCheck, DeleteCommit, CleanupDelete, Plan
  <1>5. CASE CancelPlan
    <2>1. plan'.steps = [t \in Step |->
             CASE plan.steps[t] = "pending" -> "cancelled"
               [] plan.steps[t] = "running" -> "pending"
               [] OTHER                     -> plan.steps[t]]
      BY <1>0, <1>5 DEF CancelPlan, Plan
    <2>2. plan'.steps[s] # "skipped"
      BY <1>0, <2>1
    <2> QED BY <1>0, <1>5, <2>2 DEF CancelPlan
  <1>6. CASE Recover
    <2>1. \/ plan'.steps = [t \in Step |-> IF plan.steps[t] = "running"
                                           THEN "pending" ELSE plan.steps[t]]
          \/ plan' = plan
      BY <1>0, <1>6 DEF Recover, Plan
    <2> QED BY <1>0, <1>6, <2>1 DEF Recover
  <1>7. CASE Rollback
    <2>1. plan'.steps = [t \in Step |->
             IF t \in {u \in Step : plan.steps[u] = "completed"}
             THEN "completed"
             ELSE IF target.steps[t] = "running" THEN "pending"
                                                 ELSE target.steps[t]]
      BY <1>0, <1>7 DEF Rollback, Plan
    <2> QED BY <1>0, <1>7, <2>1 DEF Rollback
  <1>8. ASSUME NEW patched \in SUBSET Step, NEW crit \in SUBSET Step,
               NEW deps \in Graphs, EditFields(patched, deps, crit)
        PROVE  Fine
    <2>1. plan'.steps = [t \in Step |->
             IF t \in patched /\ plan.steps[t] \in Unresolved /\ FixActivates
             THEN "pending" ELSE plan.steps[t]]
      BY <1>0, <1>8 DEF EditFields, Plan
    <2> QED BY <1>0, <1>8, <2>1 DEF EditFields
  <1>9. ASSUME NEW t \in Step, NEW retry \in BOOLEAN,
               ResetStep(t, retry) \/ StepDone(t) \/ StepFail(t)
        PROVE  Fine
    <2>1. \E st \in {"pending", "completed", "failed"} :
             plan'.steps = [plan.steps EXCEPT ![t] = st]
      <3>1. CASE ResetStep(t, retry)
        BY <1>0, <3>1 DEF ResetStep, Plan
      <3>2. CASE StepDone(t)
        BY <1>0, <3>2 DEF StepDone, Plan
      <3>3. CASE StepFail(t)
        BY <1>0, <3>3 DEF StepFail, Plan
      <3> QED BY <1>9, <3>1, <3>2, <3>3
    <2>2. target' = target
      BY <1>9 DEF ResetStep, StepDone, StepFail
    <2> QED BY <1>0, <2>1, <2>2
  <1> QED
    BY <1>1, <1>2, <1>3, <1>4, <1>5, <1>6, <1>7, <1>8, <1>9
    DEF Next, ExecNext, ExecStep, CommandNext

(* The status "completed" comes from a decision, from the tool call that   *)
(* completed the last step, or from a completion check of the plan as it   *)
(* is; from there no step stops being completed.                           *)
LEMMA AllDoneStep ==
    ASSUME DoneInv, [Next]_vars
    PROVE  AllDone'
  <1> USE DEF PlanIs, SetStatus, OutsideUnchanged, Outside, Command
  <1>0. plan \in Plan
    BY DEF DoneInv, TypeOK
  <1> SUFFICES ASSUME plan'.status = "completed", plan.status # "completed",
                      NEW s \in Step
               PROVE  plan'.steps[s] = "completed"
    BY KeepStep DEF DoneInv, AllDone
  <1>1. CASE UNCHANGED vars
    BY <1>1 DEF vars
  <1>2. ASSUME NEW e \in Executors, ReadPlan(e) \/ Claim(e) \/ Decide(e)
                                    \/ Work(e) \/ PauseFailed(e) \/ Halt(e)
                                    \/ MarkRunning(e) \/ PersistResult(e)
        PROVE  FALSE
    BY <1>0, <1>2 DEF ReadPlan, Claim, Decide, Work, PauseFailed, Halt,
       MarkRunning, PersistResult, Plan
  <1>3. ASSUME NEW e \in Executors, Finish(e)
        PROVE  plan'.steps[s] = "completed"
    <2>1. exec[e].out = "completed"
      BY <1>0, <1>3 DEF Finish, Plan
    <2>2. plan.steps[s] = "completed"
      BY <1>3, <2>1 DEF Finish, DoneInv, Decided
    <2> QED BY <2>2, KeepStep DEF DoneInv
  <1>4. CASE Approve \/ PausePlan \/ ResumePlan \/ RememberRevision
             \/ DeleteCheck \/ DeleteCommit \/ CleanupDelete \/ CancelPlan
             \/ Recover
    BY <1>0, <1>4 DEF Approve, PausePlan, ResumePlan, RememberRevision,
       DeleteCheck, DeleteCommit, CleanupDelete, CancelPlan, Recover, Plan
  <1>5. CASE AutoCompleteCheck
    BY <1>0, <1>5 DEF AutoCompleteCheck, Plan
  <1>6. CASE Rollback
    BY <1>0, <1>6 DEF Rollback, Plan
  <1>7. ASSUME NEW patched \in SUBSET Step, NEW crit \in SUBSET Step,
               NEW deps \in Graphs, EditFields(patched, deps, crit)
        PROVE  FALSE
    BY <1>0, <1>7 DEF EditFields, Activated, Plan
  <1>8. ASSUME NEW t \in Step, NEW retry \in BOOLEAN,
               ResetStep(t, retry) \/ StepFail(t)
        PROVE  FALSE
    BY <1>0, <1>8 DEF ResetStep, StepFail, Activated, Plan
  <1>9. ASSUME NEW t \in Step, StepDone(t)
        PROVE  plan'.steps[s] = "completed"
    <2> DEFINE st == [plan.steps EXCEPT ![t] = "completed"]
    <2>1. /\ plan'.steps = st
          /\ plan'.status = IF \A u \in Step : st[u] = "completed"
                            THEN "completed"
                            ELSE IF plan.status = "approved" THEN "running"
                            ELSE plan.status
      BY <1>0, <1>9 DEF StepDone, Plan
    <2> HIDE DEF st
    <2> QED BY <2>1
  <1> QED
    BY <1>1, <1>2, <1>3, <1>4, <1>5, <1>6, <1>7, <1>8, <1>9
    DEF Next, ExecNext, ExecStep, CommandNext

-----------------------------------------------------------------------------
(* Nothing makes a plan pending again, so a pending plan was always        *)
(* pending: no executor read it as approved, and nothing has run.          *)
LEMMA GateInit == Init => ApprovalGate /\ PendingTarget
  BY DEF Init, ApprovalGate, PendingTarget, Idle, NoPlan

LEMMA GateStep ==
    ASSUME DoneInv, ApprovalGate, PendingTarget, [Next]_vars
    PROVE  ApprovalGate' /\ PendingTarget'
  <1> USE DEF PlanIs, SetStatus, OutsideUnchanged, Outside, Command
  <1> DEFINE Gate == ApprovalGate' /\ PendingTarget'
  <1>0. /\ plan \in Plan
        /\ plan.status = "pending" =>
              /\ \A e \in Executors : exec[e].pc = "idle"
              /\ \A s \in Step : plan.steps[s] = "pending"
              /\ target # NoPlan => \A s \in Step : target.steps[s] = "pending"
    BY DEF DoneInv, TypeOK, ApprovalGate, PendingTarget
  <1>a. ASSUME plan'.status # "pending" PROVE Gate
    BY <1>a DEF ApprovalGate, PendingTarget
  <1>b. ASSUME plan' = plan, target' = target, exec' = exec PROVE Gate
    BY <1>0, <1>b DEF ApprovalGate, PendingTarget
  <1>1. CASE UNCHANGED vars
    BY <1>1, <1>b DEF vars
  <1>2. ASSUME NEW e \in Executors, ReadPlan(e) \/ ExecStep(e) \/ Halt(e)
        PROVE  Gate
    <2>1. plan.status # "pending"
      BY <1>0, <1>2 DEF ReadPlan, ExecStep, Claim, Decide, MarkRunning, Work,
         PersistResult, PauseFailed, Finish, Halt
    <2>2. CASE Finish(e)
      <3>1. exec[e].out # "pending"
        BY <2>2 DEF Finish, DoneInv, Decided, Results
      <3> QED BY <1>0, <1>a, <2>1, <2>2, <3>1 DEF Finish, Plan
    <2>3. CASE ReadPlan(e) \/ Claim(e) \/ Decide(e) \/ MarkRunning(e)
               \/ Work(e) \/ PersistResult(e) \/ PauseFailed(e) \/ Halt(e)
      <3>1. plan'.status # "pending"
        BY <1>0, <2>1, <2>3 DEF ReadPlan, Claim, Decide, MarkRunning, Work,
           PersistResult, PauseFailed, Halt, Plan
      <3> QED BY <1>a, <3>1
    <2> QED BY <1>2, <2>2, <2>3 DEF ExecStep
  <1>3. CASE Approve \/ PausePlan \/ ResumePlan \/ CancelPlan \/ DeleteCommit
             \/ CleanupDelete
    <2>1. plan'.status # "pending"
      BY <1>0, <1>3 DEF Approve, PausePlan, ResumePlan, CancelPlan,
         DeleteCommit, CleanupDelete, Plan
    <2> QED BY <1>a, <2>1
  <1>4. CASE DeleteCheck
    BY <1>4, <1>b DEF DeleteCheck
  <1>5. CASE RememberRevision
    BY <1>0, <1>5 DEF RememberRevision, ApprovalGate, PendingTarget
  <1>6. CASE AutoCompleteCheck
    <2>1. \/ plan'.status = "completed"
          \/ plan' = plan /\ target' = target /\ exec' = exec
      BY <1>0, <1>6 DEF AutoCompleteCheck, Plan
    <2> QED BY <1>a, <1>b, <2>1
  <1>7. CASE Recover
    <2>1. \/ plan'.status = "paused"
          \/ plan' = plan /\ target' = target /\ exec' = exec
      BY <1>0, <1>7 DEF Recover, Plan
    <2> QED BY <1>a, <1>b, <2>1
  <1>8. CASE Rollback
    <2>1. plan'.status = plan.status /\ target' = NoPlan /\ exec' = exec
      BY <1>0, <1>8 DEF Rollback, Plan
    <2>2. ASSUME plan.status = "pending", NEW s \in Step
          PROVE  plan'.steps[s] = "pending"
      <3>1. plan'.steps = [t \in Step |->
               IF t \in {u \in Step : plan.steps[u] = "completed"}
               THEN "completed"
               ELSE IF target.steps[t] = "running" THEN "pending"
                                                   ELSE target.steps[t]]
        BY <1>0, <1>8 DEF Rollback, Plan
      <3>2. plan.steps[s] = "pending" /\ target.steps[s] = "pending"
        BY <1>0, <1>8, <2>2 DEF Rollback
      <3> QED BY <3>1, <3>2
    <2> QED BY <1>0, <2>1, <2>2 DEF ApprovalGate, PendingTarget
  <1>9. ASSUME NEW patched \in SUBSET Step, NEW crit \in SUBSET Step,
               NEW deps \in Graphs, EditFields(patched, deps, crit)
        PROVE  Gate
    <2>1. /\ plan'.status \in {"approved", plan.status}
          /\ target' = target /\ exec' = exec
          /\ plan'.steps = [t \in Step |->
                IF t \in patched /\ plan.steps[t] \in Unresolved /\ FixActivates
                THEN "pending" ELSE plan.steps[t]]
      BY <1>0, <1>9 DEF EditFields, Activated, Plan
    <2>2. \A s \in Step : plan'.steps[s] \in {"pending", plan.steps[s]}
      BY <2>1
    <2> QED BY <1>0, <2>1, <2>2 DEF ApprovalGate, PendingTarget
  <1>10. ASSUME NEW t \in Step, NEW retry \in BOOLEAN, ResetStep(t, retry)
         PROVE  Gate
    <2>1. plan.status # "pending"
      BY <1>0, <1>10 DEF ResetStep, Unresolved
    <2>2. plan'.status \in {"approved", plan.status}
      BY <1>0, <1>10 DEF ResetStep, Activated, Plan
    <2> QED BY <1>a, <2>1, <2>2
  <1>11. ASSUME NEW t \in Step, StepDone(t) \/ StepFail(t)
         PROVE  Gate
    <2>1. plan'.status # "pending"
      <3>1. CASE StepDone(t)
        BY <1>0, <3>1 DEF StepDone, Plan
      <3>2. CASE StepFail(t)
        BY <1>0, <3>2 DEF StepFail, Plan
      <3> QED BY <1>11, <3>1, <3>2
    <2> QED BY <1>a, <2>1
  <1> QED
    BY <1>1, <1>2, <1>3, <1>4, <1>5, <1>6, <1>7, <1>8, <1>9, <1>10, <1>11
    DEF Next, ExecNext, CommandNext
-----------------------------------------------------------------------------
LEMMA DoneStep == DoneInv /\ [Next]_vars => DoneInv'
  BY TypeStep, DecidedStep, SkipStep, AllDoneStep DEF DoneInv, Decided

LEMMA DoneAlways == Spec => []DoneInv
  BY DoneInit, DoneStep, PTL DEF Spec

(* Every reachable state is well typed: in particular the stored plan only *)
(* ever has the statuses the validator of the store accepts.               *)
THEOREM PlanTypeCorrect == Spec => []TypeOK
  <1>1. DoneInv => TypeOK
    BY DEF DoneInv
  <1> QED BY <1>1, DoneAlways, PTL

(* A plan stored as completed has every step completed or skipped, though  *)
(* the executor's terminal update writes a status decided at an earlier    *)
(* read and checks nothing.                                                *)
THEOREM CompletedPlansAreDone == Spec => []CompletedMeansDone
  <1>1. DoneInv => CompletedMeansDone
    BY DEF DoneInv, AllDone, CompletedMeansDone
  <1> QED BY <1>1, DoneAlways, PTL

(* No interleaving of executors, corrections, recoveries, rollbacks and    *)
(* late results ever takes a completed step back.                          *)
THEOREM CompletedStepsAreKept == Spec => CompletedStepsStay
  <1>1. DoneInv /\ [Next]_vars =>
           [\A s \in Step : plan.steps[s] = "completed" =>
                            plan'.steps[s] = "completed"]_vars
    BY KeepStep DEF DoneInv
  <1> QED BY <1>1, DoneAlways, PTL DEF Spec, CompletedStepsStay

(* Before its approval nothing of a plan executes, whoever edits, resets   *)
(* or rolls it back.                                                       *)
THEOREM UnapprovedPlansRest == Spec => []ApprovalGate
  <1> DEFINE Inv == DoneInv /\ ApprovalGate /\ PendingTarget
  <1>1. Init => Inv
    BY DoneInit, GateInit
  <1>2. Inv /\ [Next]_vars => Inv'
    BY DoneStep, GateStep
  <1>3. Inv => ApprovalGate
    OBVIOUS
  <1> QED BY <1>1, <1>2, <1>3, PTL DEF Spec
(* A step starts only when the dependencies it was chosen with are done,   *)
(* by however many executors and corrections the plan changed since.       *)
THEOREM DependenciesAreRespected == Spec => DependenciesRespected
  <1>1. ASSUME DoneInv, [Next]_vars
        PROVE  \A e \in Executors :
                  exec[e].pc = "mark" /\ exec'[e].pc = "work" =>
                      \A t \in exec[e].deps : plan'.steps[t] = "completed"
    <2>1. TypeOK /\ \A e \in Executors : exec[e].deps \subseteq Step
      BY <1>1 DEF DoneInv, TypeOK, Exec
    <2>2. \A e \in Executors : exec[e].pc = "mark" =>
             \A t \in exec[e].deps : plan.steps[t] = "completed"
      BY <1>1 DEF DoneInv, Decided
    <2> QED BY <1>1, <2>1, <2>2, KeepStep
  <1>2. DoneInv /\ [Next]_vars =>
           [\A e \in Executors :
               exec[e].pc = "mark" /\ exec'[e].pc = "work" =>
                   \A t \in exec[e].deps : plan'.steps[t] = "completed"]_vars
    BY <1>1
  <1> QED BY <1>2, DoneAlways, PTL DEF Spec, DependenciesRespected
-----------------------------------------------------------------------------
(* With the plan-editing subagent at work.                                 *)
LEMMA DraftType ==
    ASSUME TypeOK, BeginDraft \/ CommitDraft
    PROVE  TypeOK'
  <1>0. /\ plan \in Plan /\ exec \in [Executors -> Exec]
        /\ target \in Plan \cup {NoPlan} /\ draft \in Plan \cup {NoPlan}
        /\ check \in BOOLEAN /\ deleting \in BOOLEAN /\ ops \in Nat
    BY DEF TypeOK
  <1>1. CASE BeginDraft
    BY <1>0, <1>1 DEF BeginDraft, Outside, TypeOK
  <1>2. CASE CommitDraft
    <2>1. plan' \in Plan
      <3>1. CASE plan' = plan
        BY <1>0, <3>1
      <3>2. ASSUME NEW auto \in BOOLEAN, NEW crit \in SUBSET Step, NEW deps \in Graphs,
                   PlanIs([draft EXCEPT
                      !.steps = [s \in Step |-> IF draft.steps[s] = "completed"
                                                THEN "completed" ELSE "pending"],
                      !.deps = deps, !.crit = crit, !.auto = auto])
            PROVE  plan' \in Plan
        <4> DEFINE st == [s \in Step |-> IF draft.steps[s] = "completed"
                                         THEN "completed" ELSE "pending"]
        <4>1. draft \in Plan
          BY <1>0, <1>2 DEF CommitDraft
        <4>2. st \in [Step -> StepStatus]
          BY DEF StepStatus
        <4>3. deps \in [Step -> SUBSET Step]
          BY StepFacts
        <4>4. plan' = [draft EXCEPT !.steps = st, !.deps = deps, !.crit = crit,
                                    !.auto = auto]
          BY <3>2 DEF PlanIs
        <4> HIDE DEF st
        <4> QED BY <4>1, <4>2, <4>3, <4>4 DEF Plan
      <3> QED BY <1>2, <3>1, <3>2 DEF CommitDraft
    <2> QED BY <1>0, <1>2, <2>1 DEF CommitDraft, TypeOK
  <1> QED BY <1>1, <1>2

LEMMA DraftAlways == DraftSpec => [](TypeOK /\ Results)
  <1>1. Init => TypeOK /\ Results
    BY DoneInit DEF DoneInv, Decided
  <1>2. ASSUME TypeOK, Results, [DraftNext]_vars
        PROVE  TypeOK' /\ Results'
    <2>1. CASE [Next]_vars
      BY <1>2, <2>1, TypeStep, ResultsStep
    <2>2. CASE BeginDraft \/ CommitDraft
      <3>1. exec' = exec
        BY <2>2 DEF BeginDraft, Outside, CommitDraft
      <3> QED BY <1>2, <2>2, <3>1, DraftType DEF Results
    <2> QED BY <1>2, <2>1, <2>2 DEF DraftNext
  <1> QED BY <1>1, <1>2, PTL DEF DraftSpec

(* A completed step is lost only to a draft that was begun before the step *)
(* completed: nothing else, and no later draft, takes it back.             *)
THEOREM DraftsKeepWhatTheySaw == DraftSpec => DraftKeepsWhatItSaw
  <1>1. ASSUME TypeOK, [DraftNext]_vars, NEW s \in Step, plan.steps[s] = "completed",
               draft # NoPlan => draft.steps[s] = "completed"
        PROVE  plan'.steps[s] = "completed"
    <2>1. CASE [Next]_vars
      BY <1>1, <2>1, KeepStep
    <2>2. CASE BeginDraft
      BY <1>1, <2>2 DEF BeginDraft
    <2>3. CASE CommitDraft
      <3>1. draft.steps[s] = "completed" /\ draft \in Plan
        BY <1>1, <2>3 DEF CommitDraft, TypeOK
      <3>2. ASSUME NEW auto \in BOOLEAN, NEW crit \in SUBSET Step, NEW deps \in Graphs,
                   PlanIs([draft EXCEPT
                      !.steps = [t \in Step |-> IF draft.steps[t] = "completed"
                                                THEN "completed" ELSE "pending"],
                      !.deps = deps, !.crit = crit, !.auto = auto])
            PROVE  plan'.steps[s] = "completed"
        <4>1. plan'.steps = [t \in Step |-> IF draft.steps[t] = "completed"
                                            THEN "completed" ELSE "pending"]
          BY <3>1, <3>2 DEF PlanIs, Plan
        <4> QED BY <3>1, <4>1
      <3> QED BY <1>1, <2>3, <3>2 DEF CommitDraft
    <2> QED BY <1>1, <2>1, <2>2, <2>3 DEF DraftNext
  <1>2. TypeOK /\ [DraftNext]_vars =>
           [\A s \in Step :
              /\ plan.steps[s] = "completed"
              /\ draft # NoPlan => draft.steps[s] = "completed"
              => plan'.steps[s] = "completed"]_vars
    BY <1>1
  <1> QED BY <1>2, DraftAlways, PTL DEF DraftSpec, DraftKeepsWhatItSaw
=============================================================================
