--------------------------- MODULE WebRunsProofs ----------------------------
(***************************************************************************)
(* Proofs about WebRuns, for any number of chat requests, controls and     *)
(* continued runs: type correctness, and that an active task has a worker, *)
(* that timely polls leave a hand-off alone, that a cancelled task gets no *)
(* further run and that a run that is through has read its guidance.       *)
(***************************************************************************)
EXTENDS WebRuns, TLAPS

State == [enabled : BOOLEAN, cancel : BOOLEAN, runs : 0..MaxRuns, fresh : BOOLEAN,
          status : {"enabled"} \cup ActiveStatus \cup TerminalStatus,
          current : {NoRun} \cup RunIds]
WorkerState == [pc : {"none", "lock", "head", "run", "decide", "activate", "count", "handoff",
                      "point", "record", "finish", "put", "settle", "settling", "remove",
                      "gone"},
                index : 0..MaxRuns, wasActive : BOOLEAN,
                end : {"none", "completed", "stopped", "planned", "limited", "cancelled"},
                final : {"none"} \cup EndStatus]
ControlState == [pc : {"idle", "event", "orphan", "look", "reconcile"},
                 current : {NoRun} \cup RunIds, active : BOOLEAN]
Box == [open : BOOLEAN, unread : BOOLEAN]

(* The inductive invariant.                                                *)

\* Where the worker stands, between the lock and its last step.
Place(w) ==
    /\ pc(w) \in {"none", "lock"} => index(w) = 0
    /\ pc(w) \in {"head", "run", "decide", "activate", "count", "handoff", "point", "record",
                  "finish", "put"} <=> lock = w
    /\ pc(w) \in {"run", "decide", "activate", "count", "handoff", "record"}
          => index(w) < MaxRuns
    /\ pc(w) \in {"activate", "record", "finish", "settling"} => worker[w].final \in EndStatus

\* All its runs can be found, under their old names too.
Aliases(w) ==
    pc(w) \notin {"none", "gone"} => \A i \in 0..index(w) : <<w, i>> \in activeRuns

\* A completed run takes no messages and is not continued; one that is going
\* to be continued takes none either.
Closed(w) ==
    /\ end(w) = "completed" => /\ box[w] = NoBox
                               /\ pc(w) \in {"decide", "record", "finish", "put"}
    /\ pc(w) = "decide" /\ Limited(w) => box[w] = NoBox
    /\ pc(w) \in {"activate", "count", "handoff"} => box[w] = NoBox

\* A worker that goes from one run to the next has been told of a
\* cancellation, or is going to be.
Linking(w) == \/ pc(w) \in {"activate", "count", "handoff", "point"}
              \/ pc(w) = "head" /\ index(w) > 0
Told(w) ==
    Linking(w) /\ w \notin cancelled /\ longTask.status = "cancelling"
        => \E c \in Controls : control[c].pc = "event"

\* The record of a continued task names a run of its worker.
Named(w) ==
    Continuing(w) /\ Active => longTask.current \in activeRuns /\ longTask.current[1] = w

WorkerInv(w) == Place(w) /\ Aliases(w) /\ Closed(w) /\ Told(w) /\ Named(w)

\* What a poll has read is still so, or the record has been written since.
PollInv(c) ==
    Active /\ c \notin overtaken =>
        /\ control[c].pc = "look" => control[c].current = longTask.current
        /\ control[c].pc = "reconcile" => \A w \in Workers : ~Continuing(w)

IInv == /\ TypeOK
        /\ \A w \in Workers : WorkerInv(w)
        /\ \A c \in Controls : PollInv(c)
-----------------------------------------------------------------------------
(* The type of what the steps write.                                       *)
LEMMA LocalsType ==
    ASSUME NEW where \in {"none", "lock", "settle", "remove", "gone"}
    PROVE  /\ Locals(where) \in WorkerState
           /\ Locals(where).pc = where /\ Locals(where).index = 0
           /\ Locals(where).end = "none" /\ Locals(where).final = "none"
  BY WebRunsAssumption DEF Locals, WorkerState

LEMMA TypeRecords ==
    /\ Idle \in ControlState /\ Idle.pc = "idle"
    /\ NoBox \in Box
    /\ EmptyState \in State
  BY WebRunsAssumption DEF Idle, ControlState, NoBox, Box, EmptyState, State

\* A new place, a new verdict on the task, or both.
LEMMA WorkerTypes ==
    ASSUME NEW u \in WorkerState,
           NEW where \in {"head", "run", "decide", "activate", "count", "handoff", "point",
                          "record", "finish", "put", "settling", "lock", "remove"}
    PROVE  /\ [u EXCEPT !.pc = where] \in WorkerState
           /\ \A status \in {"none"} \cup EndStatus :
                 [u EXCEPT !.pc = where, !.final = status] \in WorkerState
  BY DEF WorkerState

LEMMA WrittenType ==
    ASSUME NEW s \in State
    PROVE  /\ Written(s) \in State
           /\ Written(s).status = s.status /\ Written(s).current = s.current
           /\ Written(s).runs = s.runs
           /\ s.status \in ActiveStatus => Written(s).fresh
  <1> DEFINE f == s.status \in ActiveStatus
  <1>1. f \in BOOLEAN OBVIOUS
  <1> HIDE DEF f
  <1>2. [s EXCEPT !.fresh = f] \in State
    BY <1>1 DEF State
  <1>3. [s EXCEPT !.fresh = f].fresh = f
    BY <1>1 DEF State
  <1>4. /\ [s EXCEPT !.fresh = f].status = s.status
        /\ [s EXCEPT !.fresh = f].current = s.current
        /\ [s EXCEPT !.fresh = f].runs = s.runs
    BY <1>1 DEF State
  <1>5. Written(s) = [s EXCEPT !.fresh = f]
    BY Zenon DEF Written, f
  <1> QED BY <1>2, <1>3, <1>4, <1>5, Zenon DEF f

LEMMA FinishType ==
    ASSUME longTask \in State, NEW status \in EndStatus, FinishLongTask(status)
    PROVE  longTask' \in State /\ longTask'.status = status
  <1> DEFINE c == (status = "cancelled")
  <1>1. c \in BOOLEAN OBVIOUS
  <1> HIDE DEF c
  <1>2. /\ [longTask EXCEPT !.status = status, !.current = NoRun, !.cancel = c,
                            !.fresh = FALSE] \in State
        /\ [longTask EXCEPT !.status = status, !.current = NoRun, !.cancel = c,
                            !.fresh = FALSE].status = status
    BY <1>1 DEF State, EndStatus, TerminalStatus
  <1> QED BY <1>2, Zenon DEF FinishLongTask, c

TypeParts ==
    /\ longTask \in State
    /\ cancelled \subseteq Workers
    /\ activeRuns \subseteq RunIds
    /\ box \in [Workers -> Box]
    /\ lock \in Workers \cup {Nobody}
    /\ worker \in [Workers -> WorkerState]
    /\ control \in [Controls -> ControlState]
    /\ faults \in 0..MaxFaults

LEMMA TypeByParts ==
    /\ TypeOK <=> TypeParts /\ overtaken \subseteq Controls
    /\ TypeOK' <=> TypeParts' /\ overtaken' \subseteq Controls
  BY DEF TypeOK, TypeParts, State, Box, WorkerState, ControlState

LEMMA StepType ==
    ASSUME TypeParts, NEW w \in Workers, NEW locals \in WorkerState, Step(w, locals)
    PROVE  /\ worker' \in [Workers -> WorkerState]
           /\ worker'[w] = locals
           /\ \A v \in Workers \ {w} : worker'[v] = worker[v]
  BY DEF TypeParts, Step

LEMMA StepTo ==
    ASSUME TypeParts, NEW w \in Workers,
           NEW where \in {"head", "run", "decide", "activate", "count", "handoff", "point",
                          "record", "finish", "put", "settling", "lock", "remove"},
           Step(w, [worker[w] EXCEPT !.pc = where])
    PROVE  worker' \in [Workers -> WorkerState] /\ pc(w)' = where
  <1>1. worker[w] \in WorkerState
    BY DEF TypeParts
  <1>2. [worker[w] EXCEPT !.pc = where] \in WorkerState
    BY <1>1, WorkerTypes
  <1>3. [worker[w] EXCEPT !.pc = where].pc = where
    BY <1>1 DEF WorkerState
  <1> QED BY <1>2, <1>3, StepType DEF pc

LEMMA StepWith ==
    ASSUME TypeParts, NEW w \in Workers, NEW status \in {"none"} \cup EndStatus,
           NEW where \in {"head", "run", "decide", "activate", "count", "handoff", "point",
                          "record", "finish", "put", "settling", "lock", "remove"},
           Step(w, [worker[w] EXCEPT !.pc = where, !.final = status])
    PROVE  worker' \in [Workers -> WorkerState] /\ pc(w)' = where
  <1>1. worker[w] \in WorkerState
    BY DEF TypeParts
  <1>2. [worker[w] EXCEPT !.pc = where, !.final = status] \in WorkerState
    BY <1>1, WorkerTypes
  <1>3. [worker[w] EXCEPT !.pc = where, !.final = status].pc = where
    BY <1>1 DEF WorkerState
  <1> QED BY <1>2, <1>3, StepType DEF pc

LEMMA LeaveType ==
    ASSUME TypeParts, NEW w \in Workers, Leave(w)
    PROVE  /\ worker' \in [Workers -> WorkerState] /\ lock' = Nobody
           /\ worker'[w] = Locals("settle")
           /\ \A v \in Workers \ {w} : worker'[v] = worker[v]
  BY LocalsType, StepType DEF Leave

LEMMA GotoType ==
    ASSUME TypeParts, NEW w \in Workers,
           NEW where \in {"head", "run", "decide", "activate", "count", "handoff", "point",
                          "record", "finish", "put", "settling", "lock", "remove"},
           Goto(w, where)
    PROVE  worker' \in [Workers -> WorkerState]
  BY StepTo DEF Goto

LEMMA FinishAndPutType ==
    ASSUME TypeParts, NEW w \in Workers, NEW status \in EndStatus, FinishAndPut(w, status)
    PROVE  worker' \in [Workers -> WorkerState]
  <1>1. CASE Active
    BY <1>1, StepWith DEF FinishAndPut
  <1>2. CASE ~Active
    BY <1>2, StepTo DEF FinishAndPut
  <1> QED BY <1>1, <1>2

LEMMA BoxType ==
    ASSUME TypeParts, NEW w \in Workers
    PROVE  /\ [box EXCEPT ![w] = NoBox] \in [Workers -> Box]
           /\ [box EXCEPT ![w].open = TRUE] \in [Workers -> Box]
           /\ [box EXCEPT ![w].unread = TRUE] \in [Workers -> Box]
           /\ [box EXCEPT ![w].unread = FALSE] \in [Workers -> Box]
           /\ [box EXCEPT ![w] = [open |-> TRUE, unread |-> FALSE]] \in [Workers -> Box]
  BY TypeRecords DEF TypeParts, Box

LEMMA RecordRunType ==
    ASSUME TypeParts, NEW w \in Workers, RecordRun(w)
    PROVE  /\ longTask' \in State
           /\ longTask'.status = longTask.status
           /\ longTask'.current = RunId(w)
           /\ Active => longTask'.fresh
           /\ longTask'.runs < MaxRuns => longTask' # longTask
  <1> DEFINE n == IF longTask.runs < MaxRuns THEN longTask.runs + 1 ELSE longTask.runs
             s == [longTask EXCEPT !.current = RunId(w), !.runs = n]
  <1>1. RunId(w) \in RunIds
    BY DEF RunId, RunIds, TypeParts, WorkerState, index
  <1>2. n \in 0..MaxRuns
    BY WebRunsAssumption DEF TypeParts, State
  <1>3. longTask' = Written(s)
    BY DEF RecordRun
  <1>4. longTask \in State
    BY DEF TypeParts
  <1> HIDE DEF n
  <1>5. s \in State /\ s.status = longTask.status /\ s.current = RunId(w) /\ s.runs = n
    BY <1>1, <1>2, <1>4 DEF State
  <1> HIDE DEF s
  <1>6. n < MaxRuns => n # longTask.runs
    BY <1>4, WebRunsAssumption DEF n, State
  <1> QED BY <1>3, <1>5, <1>6, WrittenType DEF Active

LEMMA ActivateType ==
    ASSUME longTask \in State, NEW w \in Workers, Activate(w)
    PROVE  \/ longTask' = longTask
           \/ longTask' \in State /\ longTask'.status = "running" /\ longTask'.fresh
  <1> DEFINE task == IF longTask.status \in TerminalStatus THEN EmptyState ELSE longTask
             s == [task EXCEPT !.status = "running", !.current = NoRun, !.cancel = FALSE]
  <1>1. task \in State
    BY TypeRecords
  <1>2. longTask' = longTask \/ longTask' = Written(s)
    BY Zenon DEF Activate
  <1> HIDE DEF task
  <1>3. s \in State /\ s.status = "running"
    BY <1>1 DEF State, ActiveStatus
  <1> HIDE DEF s
  <1> QED BY <1>2, <1>3, WrittenType DEF ActiveStatus

(* The worker's steps keep the types.                                      *)
LEMMA WorkerTypeStep ==
    ASSUME TypeParts, NEW w \in Workers, Place(w),
           StreamChat(w) \/ WorkerStep(w) \/ Drain(w) \/ Raises(w) \/ SettlingFails(w)
    PROVE  TypeParts'
  <1>0. /\ worker[w] \in WorkerState /\ longTask \in State
        /\ pc(w) \in {"activate", "record", "finish", "settling"} => worker[w].final \in EndStatus
    BY DEF TypeParts, Place
  <1>f. faults \in Nat /\ MaxFaults \in Nat
    BY WebRunsAssumption DEF TypeParts
  <1> USE DEF webVars, others
  <1>1. CASE StreamChat(w)
    <2>1. <<w, 0>> \in RunIds
      BY WebRunsAssumption DEF RunIds
    <2>2. worker' \in [Workers -> WorkerState]
      BY <1>1, GotoType DEF StreamChat
    <2> QED BY <1>1, <2>1, <2>2, BoxType DEF StreamChat, TypeParts
  <1>2. CASE TakeLock(w)
    BY <1>2, GotoType DEF TakeLock, TypeParts
  <1>3. CASE Exhausted(w)
    <2>1. worker' \in [Workers -> WorkerState] /\ lock' \in Workers \cup {Nobody}
      <3>1. CASE longTask.status \in {"running", "pausing"}
        BY <1>3, <3>1, StepWith DEF Exhausted, EndStatus, TypeParts
      <3>2. CASE longTask.status \notin {"running", "pausing"}
        BY <1>3, <3>2, LeaveType DEF Exhausted
      <3> QED BY <3>1, <3>2
    <2> QED BY <1>3, <2>1 DEF Exhausted, TypeParts
  <1>4. CASE HeadCancelled(w)
    BY <1>4, FinishAndPutType DEF HeadCancelled, TypeParts, EndStatus
  <1>5. CASE HeadPlanStopped(w)
    <2>1. worker' \in [Workers -> WorkerState]
      BY <1>5, StepWith DEF HeadPlanStopped
    <2> QED BY <1>5, <2>1 DEF HeadPlanStopped, TypeParts
  <1>6. CASE StartRun(w)
    <2>1. [worker[w] EXCEPT !.pc = "run", !.end = "none"] \in WorkerState
      BY <1>0 DEF WorkerState
    <2>2. worker' \in [Workers -> WorkerState]
      BY <1>6, <2>1, StepType DEF StartRun
    <2> QED BY <1>6, <2>2 DEF StartRun, TypeParts
  <1>7. CASE \/ Complete(w) \/ LastRequest(w) \/ PlanBoundary(w) \/ GuardStops(w)
             \/ LimitHit(w) \/ CancelNoticed(w)
    <2>1. PICK how \in {"completed", "stopped", "planned", "limited", "cancelled"} :
             RunOver(w, how)
      BY <1>7 DEF Complete, LastRequest, PlanBoundary, GuardStops, LimitHit, CancelNoticed
    <2>2. [worker[w] EXCEPT !.pc = "decide", !.end = how] \in WorkerState
      BY <1>0 DEF WorkerState
    <2>3. worker' \in [Workers -> WorkerState]
      BY <2>1, <2>2, StepType DEF RunOver
    <2>4. box' \in [Workers -> Box]
      BY <1>7, BoxType DEF Complete, LastRequest, PlanBoundary, GuardStops, LimitHit,
         CancelNoticed, CloseBox, TypeParts
    <2> QED BY <2>1, <2>3, <2>4 DEF RunOver, TypeParts
  <1>8. CASE RunFails(w)
    <2>1. PICK status \in EndStatus : FinishAndPut(w, status)
      BY <1>8 DEF RunFails, EndStatus
    <2>2. worker' \in [Workers -> WorkerState]
      BY <2>1, FinishAndPutType
    <2> QED BY <1>8, <2>2 DEF RunFails, TypeParts
  <1>9. CASE RunLeft(w) \/ Unpublished(w)
    BY <1>9, LeaveType DEF RunLeft, Unpublished, TypeParts
  <1>10. CASE Decide(w)
    <2>1. \E locals \in WorkerState : Step(w, locals)
      <3>1. ASSUME NEW status \in EndStatus, NEW where \in {"activate", "record", "put"},
                   NEW b \in BOOLEAN, NEW e \in {"none", "completed"}
            PROVE  [worker[w] EXCEPT !.pc = where, !.final = status, !.wasActive = b, !.end = e]
                      \in WorkerState
        BY <1>0 DEF WorkerState
      <3> DEFINE where(continues) == IF continues THEN "activate"
                                     ELSE IF Active THEN "record" ELSE "put"
                 was(continues) == continues /\ Active
                 over == IF end(w) = "completed" THEN "completed" ELSE "none"
                 local(status, continues) ==
                    [worker[w] EXCEPT !.pc = where(continues), !.final = status,
                                      !.wasActive = was(continues), !.end = over]
      <3>2. ASSUME NEW continues \in BOOLEAN
            PROVE  /\ where(continues) \in {"activate", "record", "put"}
                   /\ was(continues) \in BOOLEAN /\ over \in {"none", "completed"}
        OBVIOUS
      <3>3. \E continues \in BOOLEAN, status \in EndStatus : Step(w, local(status, continues))
        <4> DEFINE can == /\ Limited(w) /\ w \notin cancelled
                          /\ longTask.enabled /\ ~longTask.cancel
                          /\ longTask.status \notin {"pausing", "cancelling"}
        <4>1. can \in BOOLEAN /\ FALSE \in BOOLEAN
          OBVIOUS
        <4>2. {"paused", "cancelled", "ended"} \subseteq EndStatus
          BY DEF EndStatus
        <4>3. \/ Step(w, local("paused", can))
              \/ \E status \in EndStatus : Step(w, local(status, FALSE))
              \/ Step(w, local(IF end(w) = "cancelled" THEN "cancelled" ELSE "ended", FALSE))
          BY <1>10, Zenon DEF Decide, end
        <4> HIDE DEF can, local
        <4> QED BY <4>1, <4>2, <4>3
      <3> HIDE DEF where, was, over
      <3>4. ASSUME NEW continues \in BOOLEAN, NEW status \in EndStatus
            PROVE  local(status, continues) \in WorkerState
        BY <3>1, <3>2
      <3> HIDE DEF local
      <3> QED BY <3>3, <3>4
    <2>2. worker' \in [Workers -> WorkerState]
      BY <2>1, StepType
    <2> QED BY <1>10, <2>2 DEF Decide, TypeParts
  <1>11. CASE Activate(w)
    <2> DEFINE where == IF longTask.enabled THEN "count"
                        ELSE IF worker[w].wasActive THEN "record" ELSE "put"
    <2>1. [worker[w] EXCEPT !.pc = where, !.wasActive = FALSE] \in WorkerState
      BY <1>0 DEF WorkerState
    <2>2. worker' \in [Workers -> WorkerState]
      BY <1>11, <2>1, StepType DEF Activate
    <2>3. longTask' \in State
      BY <1>0, <1>11, ActivateType
    <2> QED BY <1>11, <2>2, <2>3 DEF Activate, TypeParts
  <1>12. CASE Count(w)
    <2>1. longTask' \in State
      BY <1>12, RecordRunType DEF Count
    <2>2. worker' \in [Workers -> WorkerState]
      <3>1. CASE longTask'.runs < MaxRuns
        BY <1>12, <3>1, StepTo DEF Count
      <3>2. CASE ~(longTask'.runs < MaxRuns)
        BY <1>12, <3>2, StepWith DEF Count, EndStatus
      <3> QED BY <3>1, <3>2
    <2> QED BY <1>12, <2>1, <2>2 DEF Count, TypeParts
  <1>13. CASE HandOff(w)
    <2>1. index(w) \in 0..MaxRuns /\ index(w) < MaxRuns
      BY <1>0, <1>13 DEF HandOff, Place, index, WorkerState
    <2>0. \A n \in 0..MaxRuns : n < MaxRuns => n + 1 \in 0..MaxRuns
      BY WebRunsAssumption
    <2>2. index(w) + 1 \in 0..MaxRuns
      BY <2>0, <2>1, Zenon
    <2>3. [worker[w] EXCEPT !.pc = "point", !.index = index(w) + 1] \in WorkerState
      BY <1>0, <2>2 DEF WorkerState
    <2>4. worker' \in [Workers -> WorkerState]
      BY <1>13, <2>3, StepType DEF HandOff, index
    <2>5. <<w, index(w) + 1>> \in RunIds
      BY <2>2 DEF RunIds
    <2> QED BY <1>13, <2>4, <2>5, BoxType DEF HandOff, TypeParts
  <1>14. CASE SetCurrentRun(w)
    <2>1. RunId(w) \in RunIds
      BY <1>0 DEF RunId, RunIds, WorkerState
    <2>2. [longTask EXCEPT !.current = RunId(w)] \in State
      BY <1>0, <2>1 DEF State
    <2>3. longTask' \in State
      BY <1>0, <1>14, <2>2, WrittenType DEF SetCurrentRun
    <2> QED BY <1>14, <2>3, GotoType DEF SetCurrentRun, TypeParts
  <1>15. CASE RecordLast(w)
    <2>1. longTask' \in State
      BY <1>15, RecordRunType DEF RecordLast
    <2>2. PICK status \in EndStatus : Step(w, [worker[w] EXCEPT !.pc = "finish", !.final = status])
      BY <1>0, <1>15 DEF RecordLast, EndStatus
    <2>3. worker' \in [Workers -> WorkerState]
      BY <2>2, StepWith
    <2> QED BY <1>15, <2>1, <2>3 DEF RecordLast, TypeParts
  <1>16. CASE Finish(w)
    <2>1. longTask' \in State
      BY <1>0, <1>16, FinishType DEF Finish
    <2>2. worker' \in [Workers -> WorkerState]
      BY <1>16, StepWith DEF Finish
    <2> QED BY <1>16, <2>1, <2>2 DEF Finish, TypeParts
  <1>17. CASE PutLast(w)
    BY <1>17, LeaveType, BoxType DEF PutLast, CloseBox, TypeParts
  <1>18. CASE Raises(w)
    <2>1. faults' \in 0..MaxFaults
      BY <1>18, <1>f DEF Raises
    <2> QED BY <1>18, <2>1, LeaveType DEF Raises, TypeParts
  <1>19. CASE Settle(w)
    <2>1. worker' \in [Workers -> WorkerState]
      <3>1. CASE Active
        <4>1. PICK status \in EndStatus :
                 Step(w, [worker[w] EXCEPT !.pc = "settling", !.final = status])
          BY <3>1, <1>19 DEF Settle, EndStatus
        <4> QED BY <4>1, StepWith
      <3>2. CASE ~Active
        BY <3>2, <1>19, StepTo DEF Settle
      <3> QED BY <3>1, <3>2
    <2> QED BY <1>19, <2>1 DEF Settle, TypeParts
  <1>20. CASE Settling(w)
    <2>1. longTask' \in State
      BY <1>0, <1>20, FinishType DEF Settling
    <2>2. worker' \in [Workers -> WorkerState]
      BY <1>20, LocalsType, StepType DEF Settling
    <2> QED BY <1>20, <2>1, <2>2 DEF Settling, TypeParts
  <1>21. CASE SettlingFails(w)
    <2>1. faults' \in 0..MaxFaults
      BY <1>21, <1>f DEF SettlingFails
    <2>2. worker' \in [Workers -> WorkerState]
      BY <1>21, LocalsType, StepType DEF SettlingFails
    <2> QED BY <1>21, <2>1, <2>2 DEF SettlingFails, TypeParts
  <1>22. CASE Remove(w)
    <2>1. worker' \in [Workers -> WorkerState]
      BY <1>22, LocalsType, StepType DEF Remove
    <2> QED BY <1>22, <2>1, BoxType DEF Remove, TypeParts
  <1>23. CASE Drain(w)
    BY <1>23, BoxType DEF Drain, TypeParts
  <1> QED
    BY <1>1, <1>2, <1>3, <1>4, <1>5, <1>6, <1>7, <1>8, <1>9, <1>10, <1>11, <1>12, <1>13, <1>14,
       <1>15, <1>16, <1>17, <1>18, <1>19, <1>20, <1>21, <1>22, <1>23 DEF WorkerStep, RunEnds

(* What the controls write.                                                *)
LEMMA OrphanedType ==
    ASSUME longTask \in State, Orphaned
    PROVE  longTask' \in State /\ longTask'.status \in EndStatus
  BY FinishType DEF Orphaned, EndStatus

LEMMA SwitchType ==
    ASSUME longTask \in State, SwitchOn \/ SwitchOff
    PROVE  /\ longTask' \in State
           /\ longTask'.status = "cancelling" => longTask.status = "cancelling"
           /\ Active' => Active /\ longTask'.fresh /\ longTask'.current = longTask.current
  <1> DEFINE off == IF longTask.status = "cancelling" THEN "cancelling"
                    ELSE IF Active THEN "pausing" ELSE "disabled"
             lit == [longTask EXCEPT !.enabled = FALSE, !.status = off]
  <1>1. /\ off \in {"cancelling", "pausing", "disabled"}
        /\ off = "cancelling" => longTask.status = "cancelling"
        /\ off \in ActiveStatus => Active
    BY DEF Active, ActiveStatus
  <1>2. SwitchOff => longTask' = Written(lit)
    BY DEF SwitchOff
  <1> HIDE DEF off
  <1>3. lit \in State /\ lit.status = off /\ lit.current = longTask.current
    BY <1>1 DEF State, ActiveStatus, TerminalStatus
  <1>4. CASE SwitchOff
    BY <1>1, <1>2, <1>3, <1>4, WrittenType DEF Active
  <1>5. CASE SwitchOn
    <2>1. PICK s \in {EmptyState,
                      [longTask EXCEPT !.enabled = TRUE, !.status = "running", !.cancel = FALSE],
                      [longTask EXCEPT !.enabled = TRUE]} :
             /\ longTask' = Written(s)
             /\ s = [longTask EXCEPT !.enabled = TRUE, !.status = "running", !.cancel = FALSE]
                   => longTask.status \in {"running", "pausing"}
                      \/ s = [longTask EXCEPT !.enabled = TRUE] \/ s = EmptyState
      BY <1>5 DEF SwitchOn
    <2>2. CASE s = EmptyState
      <3>1. s \in State /\ s.status = "enabled"
        BY <2>2, TypeRecords DEF EmptyState
      <3> QED BY <2>1, <3>1, WrittenType DEF Active, ActiveStatus
    <2>3. CASE s = [longTask EXCEPT !.enabled = TRUE]
      <3>1. s \in State /\ s.status = longTask.status /\ s.current = longTask.current
        BY <2>3 DEF State
      <3> QED BY <2>1, <3>1, WrittenType DEF Active
    <2>4. CASE /\ s = [longTask EXCEPT !.enabled = TRUE, !.status = "running", !.cancel = FALSE]
               /\ longTask.status \in {"running", "pausing"}
      <3>1. s \in State /\ s.status = "running" /\ s.current = longTask.current
        BY <2>4 DEF State, ActiveStatus
      <3> QED BY <2>1, <2>4, <3>1, WrittenType DEF Active, ActiveStatus
    <2> QED BY <2>1, <2>2, <2>3, <2>4
  <1> QED BY <1>4, <1>5

LEMMA RequestType ==
    ASSUME longTask \in State, control \in [Controls -> ControlState],
           NEW c \in Controls, RequestCancel(c)
    PROVE  /\ longTask' \in State
           /\ Active' => Active /\ longTask'.fresh /\ longTask'.current = longTask.current
           /\ control' \in [Controls -> ControlState] /\ control'[c].pc = "event"
           /\ control[c].pc = "idle"
           /\ \A d \in Controls \ {c} : control'[d] = control[d]
  <1> DEFINE st == IF Active THEN "cancelling" ELSE "cancelled"
             asked == [longTask EXCEPT !.status = st, !.cancel = TRUE]
             state == IF Active \/ longTask.status = "paused" THEN Written(asked) ELSE longTask
             act == state.status \in ActiveStatus
  <1>1. /\ st \in {"cancelling", "cancelled"}
        /\ st \in ActiveStatus => Active
    BY DEF ActiveStatus
  <1>2. longTask' = state /\ control[c].pc = "idle"
        /\ control' = [control EXCEPT ![c] = [Idle EXCEPT !.pc = "event", !.active = act]]
    BY Zenon DEF RequestCancel
  <1>3. act \in BOOLEAN
    OBVIOUS
  <1> HIDE DEF st
  <1>4. asked \in State /\ asked.status = st /\ asked.current = longTask.current
    BY <1>1 DEF State, ActiveStatus, TerminalStatus, EndStatus
  <1> HIDE DEF asked, act
  <1>5. state \in State /\ (state.status \in ActiveStatus =>
                              Active /\ state.fresh /\ state.current = longTask.current)
    BY <1>1, <1>4, WrittenType DEF Active, ActiveStatus
  <1>6. [Idle EXCEPT !.pc = "event", !.active = act] \in ControlState
        /\ [Idle EXCEPT !.pc = "event", !.active = act].pc = "event"
    BY <1>3, TypeRecords DEF ControlState
  <1> HIDE DEF state
  <1> QED BY <1>2, <1>5, <1>6, Zenon DEF Active

(* Every step keeps the types.                                             *)
LEMMA TypeStep ==
    ASSUME TypeOK, \A w \in Workers : Place(w), [Next]_vars
    PROVE  TypeOK'
  <1>0. TypeParts /\ longTask \in State
    BY TypeByParts DEF TypeParts
  <1>o. overtaken' \subseteq Controls
    BY DEF TypeOK, Next, Overtaking, vars
  <1> SUFFICES TypeParts'
    BY <1>o, TypeByParts
  <1>f. faults \in Nat /\ MaxFaults \in Nat
    BY <1>0, WebRunsAssumption DEF TypeParts
  <1>i. \A c \in Controls : [control EXCEPT ![c] = Idle] \in [Controls -> ControlState]
    BY <1>0, TypeRecords DEF TypeParts
  <1> USE DEF webVars, others
  <1>1. ASSUME NEW w \in Workers,
               StreamChat(w) \/ WorkerStep(w) \/ Drain(w) \/ Raises(w) \/ SettlingFails(w)
        PROVE  TypeParts'
    BY <1>0, <1>1, WorkerTypeStep
  <1>2. ASSUME NEW w \in Workers, CancelRun(w) \/ SubmitGuidance(w)
        PROVE  TypeParts'
    <2>1. box' \in [Workers -> Box]
      BY <1>0, <1>2, BoxType, Zenon DEF CancelRun, SubmitGuidance, CloseBox
    <2> QED BY <1>0, <1>2, <2>1 DEF CancelRun, SubmitGuidance, TypeParts
  <1>3. ASSUME NEW c \in Controls, RequestCancel(c)
        PROVE  TypeParts'
    BY <1>0, <1>3, RequestType DEF RequestCancel, TypeParts
  <1>4. ASSUME NEW c \in Controls, CancelEvents(c)
        PROVE  TypeParts'
    <2>1. [Idle EXCEPT !.pc = "orphan"] \in ControlState
      BY TypeRecords DEF ControlState
    <2>2. control' \in [Controls -> ControlState]
      BY <1>0, <1>4, <2>1, TypeRecords DEF CancelEvents, TypeParts
    <2>3. box' \in [Workers -> Box]
      BY <1>0, <1>4, TypeRecords DEF CancelEvents, TypeParts
    <2> QED BY <1>0, <1>4, <2>2, <2>3 DEF CancelEvents, TypeParts
  <1>5. ASSUME NEW c \in Controls, CancelOrphan(c) \/ Reconcile(c)
        PROVE  TypeParts'
    <2>1. longTask' \in State
      BY <1>0, <1>5, OrphanedType DEF CancelOrphan, Reconcile
    <2> QED BY <1>0, <1>i, <1>5, <2>1 DEF CancelOrphan, Reconcile, TypeParts
  <1>6. ASSUME NEW c \in Controls, PollState(c)
        PROVE  TypeParts'
    <2>1. [Idle EXCEPT !.pc = "look", !.current = longTask.current] \in ControlState
      BY <1>0, TypeRecords DEF ControlState, State
    <2> QED BY <1>0, <1>6, <2>1 DEF PollState, TypeParts
  <1>7. ASSUME NEW c \in Controls, PollRuns(c)
        PROVE  TypeParts'
    <2>1. [Idle EXCEPT !.pc = "reconcile"] \in ControlState
      BY TypeRecords DEF ControlState
    <2> QED BY <1>0, <1>7, <2>1, TypeRecords DEF PollRuns, TypeParts
  <1>8. CASE SwitchOn \/ SwitchOff
    BY <1>0, <1>8, SwitchType DEF SwitchOn, SwitchOff, TypeParts
  <1>9. CASE GraceEnds
    <2>1. [longTask EXCEPT !.fresh = FALSE] \in State
      BY <1>0 DEF State
    <2> QED BY <1>0, <1>9, <2>1 DEF GraceEnds, TypeParts
  <1>10. CASE HostCrash
    <2>1. faults' \in 0..MaxFaults
      BY <1>10, <1>f DEF HostCrash
    <2>2. worker' \in [Workers -> WorkerState]
      BY <1>10, LocalsType DEF HostCrash
    <2>3. box' \in [Workers -> Box] /\ control' \in [Controls -> ControlState]
      BY <1>10, TypeRecords DEF HostCrash
    <2> QED BY <1>0, <1>10, <2>1, <2>2, <2>3 DEF HostCrash, TypeParts
  <1>11. CASE UNCHANGED vars
    BY <1>0, <1>11 DEF vars, TypeParts
  <1> QED
    BY <1>1, <1>2, <1>3, <1>4, <1>5, <1>6, <1>7, <1>8, <1>9, <1>10, <1>11
       DEF Next, HostStep, ControlStep
-----------------------------------------------------------------------------
(* A step of another worker leaves alone what this one relies on.          *)
LEMMA OtherWorker ==
    ASSUME TypeParts, NEW w \in Workers, NEW v \in Workers \ {w}, Place(v),
           StreamChat(v) \/ WorkerStep(v) \/ Drain(v) \/ Raises(v) \/ SettlingFails(v)
    PROVE  /\ worker'[w] = worker[w] /\ box'[w] = box[w] /\ control' = control
           /\ w \in cancelled' <=> w \in cancelled
           /\ \A i \in 0..MaxRuns : <<w, i>> \in activeRuns => <<w, i>> \in activeRuns'
           /\ lock' = w <=> lock = w
           /\ lock = w => longTask' = longTask \/ ~Active'
  <1> USE DEF TypeParts, webVars, others
  <1>1. /\ lock = w => pc(v) \in {"none", "lock", "settle", "settling", "remove", "gone"}
        /\ pc(v) = "settling" => worker[v].final \in EndStatus
        /\ w # Nobody
    BY WebRunsAssumption DEF Place, WorkerState, pc
  <1>2. worker'[w] = worker[w]
    BY DEF StreamChat, WorkerStep, Drain, Raises, SettlingFails, TakeLock, Exhausted,
       HeadCancelled, HeadPlanStopped, StartRun, RunEnds, Complete, LastRequest, PlanBoundary,
       GuardStops, LimitHit, CancelNoticed, RunFails, RunLeft, RunOver, Decide, Activate,
       Count, HandOff,
       SetCurrentRun, Unpublished, RecordLast, Finish, PutLast, Settle, Settling, Remove,
       FinishAndPut, Step, Goto, Leave
  <1>3. box'[w] = box[w]
    BY DEF StreamChat, WorkerStep, Drain, Raises, SettlingFails, TakeLock, Exhausted,
       HeadCancelled, HeadPlanStopped, StartRun, RunEnds, Complete, LastRequest, PlanBoundary,
       GuardStops, LimitHit, CancelNoticed, RunFails, RunLeft, RunOver, Decide, Activate,
       Count, HandOff,
       SetCurrentRun, Unpublished, RecordLast, Finish, PutLast, Settle, Settling, Remove,
       CloseBox
  <1>4. control' = control /\ (w \in cancelled' <=> w \in cancelled)
    BY DEF StreamChat, WorkerStep, Drain, Raises, SettlingFails, TakeLock, Exhausted,
       HeadCancelled, HeadPlanStopped, StartRun, RunEnds, Complete, LastRequest, PlanBoundary,
       GuardStops, LimitHit, CancelNoticed, RunFails, RunLeft, RunOver, Decide, Activate,
       Count, HandOff,
       SetCurrentRun, Unpublished, RecordLast, Finish, PutLast, Settle, Settling, Remove
  <1>5. \A i \in 0..MaxRuns : <<w, i>> \in activeRuns => <<w, i>> \in activeRuns'
    BY DEF StreamChat, WorkerStep, Drain, Raises, SettlingFails, TakeLock, Exhausted,
       HeadCancelled, HeadPlanStopped, StartRun, RunEnds, Complete, LastRequest, PlanBoundary,
       GuardStops, LimitHit, CancelNoticed, RunFails, RunLeft, RunOver, Decide, Activate,
       Count, HandOff,
       SetCurrentRun, Unpublished, RecordLast, Finish, PutLast, Settle, Settling, Remove
  <1>6. ASSUME lock = w
        PROVE  lock' = w /\ (longTask' = longTask \/ ~Active')
    <2>1. \/ StreamChat(v) \/ TakeLock(v) \/ Settle(v) \/ Settling(v) \/ SettlingFails(v)
          \/ Remove(v)
      BY <1>1, <1>6
         DEF WorkerStep, Drain, Raises, Exhausted, HeadCancelled, HeadPlanStopped, StartRun,
             RunEnds, Complete, LastRequest, PlanBoundary, GuardStops, LimitHit,
             CancelNoticed, RunFails,
             RunLeft, RunOver, Decide, Activate, Count, HandOff, SetCurrentRun, Unpublished,
             RecordLast, Finish, PutLast
    <2>2. CASE Settling(v)
      BY <1>1, <1>6, <2>2, FinishType DEF Settling, Active, ActiveStatus, EndStatus
    <2>3. CASE ~Settling(v)
      BY <1>1, <1>6, <2>1, <2>3 DEF StreamChat, TakeLock, Settle, SettlingFails, Remove
    <2> QED BY <2>2, <2>3
  <1>7. ASSUME lock # w
        PROVE  lock' # w
    BY <1>1, <1>7
       DEF StreamChat, WorkerStep, Drain, Raises, SettlingFails, TakeLock, Exhausted,
       HeadCancelled, HeadPlanStopped, StartRun, RunEnds, Complete, LastRequest, PlanBoundary,
       GuardStops, LimitHit, CancelNoticed, RunFails, RunLeft, RunOver, Decide, Activate,
       Count, HandOff,
       SetCurrentRun, Unpublished, RecordLast, Finish, PutLast, Settle, Settling, Remove, Leave
  <1> QED BY <1>2, <1>3, <1>4, <1>5, <1>6, <1>7

LEMMA LeaveLocals ==
    ASSUME TypeParts, NEW w \in Workers, Leave(w)
    PROVE  pc(w)' = "settle" /\ index(w)' = 0 /\ end(w)' = "none" /\ lock' = Nobody
  BY LeaveType, LocalsType DEF pc, index, end

LEMMA StoppedLocals ==
    ASSUME TypeParts, NEW w \in Workers,
           NEW how \in {"stopped", "planned", "limited", "cancelled"}, RunOver(w, how)
    PROVE  /\ pc(w) = "run" /\ pc(w)' = "decide" /\ index(w)' = index(w) /\ end(w)' = how
           /\ longTask' = longTask /\ lock' = lock /\ activeRuns' = activeRuns
           /\ cancelled' = cancelled /\ control' = control
  <1>1. worker[w] \in WorkerState
    BY DEF TypeParts
  <1> QED BY <1>1 DEF TypeParts, RunOver, Step, pc, index, end, WorkerState, others

LEMMA DecideLocals ==
    ASSUME TypeParts, NEW w \in Workers, Decide(w)
    PROVE  /\ pc(w) = "decide" /\ pc(w)' \in {"activate", "record", "put"}
           /\ index(w)' = index(w)
           /\ end(w)' = "completed" => end(w) = "completed"
           /\ worker'[w].final \in EndStatus
           /\ pc(w)' = "activate" => Limited(w) /\ longTask.status # "cancelling"
  <1> DEFINE can == /\ Limited(w) /\ w \notin cancelled
                    /\ longTask.enabled /\ ~longTask.cancel
                    /\ longTask.status \notin {"pausing", "cancelling"}
             where(continues) == IF continues THEN "activate"
                                 ELSE IF Active THEN "record" ELSE "put"
             was(continues) == continues /\ Active
             over == IF end(w) = "completed" THEN "completed" ELSE "none"
             local(status, continues) ==
                [worker[w] EXCEPT !.pc = where(continues), !.final = status,
                                  !.wasActive = was(continues), !.end = over]
  <1>1. /\ pc(w) = "decide"
        /\ \/ Step(w, local("paused", can)) /\ Limited(w)
           \/ \E status \in EndStatus : Step(w, local(status, FALSE))
           \/ Step(w, local(IF end(w) = "cancelled" THEN "cancelled" ELSE "ended", FALSE))
    BY Zenon DEF Decide, end
  <1>2. ASSUME NEW status \in EndStatus, NEW continues \in BOOLEAN, continues => can
        PROVE  LET u == local(status, continues) IN
               /\ u \in WorkerState
               /\ u.pc \in {"activate", "record", "put"} /\ u.index = worker[w].index
               /\ u.end = over /\ u.final = status
               /\ u.pc = "activate" => can
    <2>1. /\ where(continues) \in {"activate", "record", "put"}
          /\ where(continues) = "activate" => can
          /\ was(continues) \in BOOLEAN /\ over \in {"none", "completed"}
          /\ worker[w] \in WorkerState
      BY <1>2 DEF TypeParts
    <2> HIDE DEF where, was, over, can
    <2> QED BY <2>1 DEF WorkerState
  <1>3. can \in BOOLEAN /\ {"paused", "cancelled", "ended"} \subseteq EndStatus
    BY DEF EndStatus
  <1>4. over = "completed" => end(w) = "completed"
    OBVIOUS
  <1> HIDE DEF local, over
  <1>5. PICK status \in EndStatus, continues \in BOOLEAN :
           (continues => can) /\ Step(w, local(status, continues))
    <2> HIDE DEF can
    <2> QED BY <1>1, <1>3
  <1>6. worker'[w] = local(status, continues)
    BY <1>2, <1>5, StepType
  <1> QED BY <1>1, <1>2, <1>4, <1>5, <1>6 DEF pc, index, end

(* A worker's own step keeps what is known about it.                       *)
LEMMA OwnStep ==
    ASSUME TypeParts, NEW w \in Workers, WorkerInv(w),
           StreamChat(w) \/ WorkerStep(w) \/ Drain(w) \/ Raises(w) \/ SettlingFails(w)
    PROVE  WorkerInv(w)'
  <1>t. /\ worker \in [Workers -> WorkerState] /\ worker[w] \in WorkerState
        /\ box \in [Workers -> Box] /\ longTask \in State /\ w # Nobody
    BY WebRunsAssumption DEF TypeParts
  <1> USE <1>t DEF webVars, others, WorkerInv, Place, Aliases, Closed, Limited, Told, Named,
                   Linking, Continuing, pc, index, end, Step, Goto, WorkerState
  <1>1. CASE StreamChat(w)
    BY <1>1 DEF StreamChat
  <1>2. CASE TakeLock(w)
    BY <1>2 DEF TakeLock
  <1>3. CASE Exhausted(w)
    <2>1. CASE longTask.status \in {"running", "pausing"}
      <3>1. /\ pc(w)' = "finish" /\ index(w)' = index(w) /\ end(w)' = end(w)
            /\ worker'[w].final = "paused" /\ pc(w) = "head" /\ lock' = lock
        <4>1. /\ Step(w, [worker[w] EXCEPT !.pc = "finish", !.final = "paused"])
              /\ pc(w) = "head" /\ lock' = lock
          BY <1>3, <2>1, Zenon DEF Exhausted
        <4> HIDE DEF WorkerInv
        <4> QED BY <4>1
      <3> HIDE DEF pc, index, end, Step, WorkerState
      <3> QED BY <1>3, <3>1 DEF Exhausted, EndStatus
    <2>2. CASE longTask.status \notin {"running", "pausing"}
      <3>1. pc(w) = "head" /\ Leave(w) /\ activeRuns' = activeRuns /\ 0 \in 0..index(w)
        BY <1>3, <2>2, WebRunsAssumption DEF Exhausted
      <3> HIDE DEF pc, index, end, Step, WorkerState
      <3> QED BY <3>1, LeaveLocals
    <2> QED BY <2>1, <2>2
  <1>4. CASE HeadCancelled(w)
    BY <1>4 DEF HeadCancelled, FinishAndPut, EndStatus
  <1>5. CASE HeadPlanStopped(w)
    BY <1>5 DEF HeadPlanStopped
  <1>6. CASE StartRun(w)
    <2>1. /\ pc(w)' = "run" /\ index(w)' = index(w) /\ end(w)' = "none"
          /\ pc(w) = "head" /\ index(w) < MaxRuns
      BY <1>6 DEF StartRun
    <2> HIDE DEF pc, index, end, Step, WorkerState
    <2> QED BY <1>6, <2>1 DEF StartRun, Active
  <1>7. CASE Complete(w)
    BY <1>7 DEF Complete, RunOver, CloseBox
  <1>8. CASE LastRequest(w) \/ PlanBoundary(w) \/ LimitHit(w)
    <2>1. PICK how \in {"stopped", "planned", "limited", "cancelled"} : RunOver(w, how)
      BY <1>8 DEF LastRequest, PlanBoundary, LimitHit
    <2>2. box'[w] = NoBox
      BY <1>8 DEF LastRequest, PlanBoundary, LimitHit, CloseBox
    <2> HIDE DEF pc, index, end, Step, WorkerState
    <2> QED BY <2>1, <2>2, StoppedLocals
  <1>9. CASE GuardStops(w) \/ CancelNoticed(w)
    <2>1. PICK how \in {"stopped", "cancelled"} : RunOver(w, how)
      BY <1>9 DEF GuardStops, CancelNoticed
    <2> HIDE DEF pc, index, end, Step, WorkerState
    <2> QED BY <2>1, StoppedLocals DEF Limited
  <1>10. CASE RunFails(w)
    BY <1>10 DEF RunFails, FinishAndPut, EndStatus
  <1>11. CASE RunLeft(w) \/ Unpublished(w)
    BY <1>11 DEF RunLeft, Unpublished, Leave, Locals
  <1>13. CASE Activate(w)
    <2>1. /\ pc(w)' \in {"count", "record", "put"} /\ index(w)' = index(w) /\ end(w)' = end(w)
          /\ worker'[w].final = worker[w].final /\ pc(w) = "activate"
      BY <1>13 DEF Activate
    <2>2. longTask'.status = "cancelling" => longTask.status = "cancelling"
      BY <1>13, ActivateType
    <2> HIDE DEF pc, index, end, Step, WorkerState
    <2> QED BY <1>13, <2>1, <2>2 DEF Activate
  <1>14. CASE Count(w)
    <2>1. /\ pc(w)' \in {"handoff", "finish"} /\ index(w)' = index(w) /\ end(w)' = end(w)
          /\ worker'[w].final \in {worker[w].final, "paused"} /\ pc(w) = "count"
      BY <1>14 DEF Count
    <2>2. longTask'.status = longTask.status /\ longTask'.current = <<w, index(w)>>
      BY <1>14, RecordRunType DEF Count, RunId
    <2>3. pc(w)' = "finish" => worker'[w].final \in EndStatus
      BY <1>14 DEF Count, EndStatus
    <2>4. index(w) \in 0..index(w)
      BY DEF TypeParts
    <2> HIDE DEF pc, index, end, Step, WorkerState
    <2> QED BY <1>14, <2>1, <2>2, <2>3, <2>4 DEF Count
  <1>15. CASE HandOff(w)
    <2>1. /\ pc(w)' = "point" /\ index(w)' = index(w) + 1 /\ end(w)' = end(w)
          /\ pc(w) = "handoff" /\ index(w) \in Nat
      BY <1>15 DEF HandOff
    <2>2. ASSUME NEW i \in 0..(index(w) + 1)
          PROVE  i \in 0..index(w) \/ i = index(w) + 1
      BY <2>1
    <2>3. activeRuns' = activeRuns \cup {<<w, index(w) + 1>>}
      BY <1>15 DEF HandOff
    <2> HIDE DEF pc, index, end, Step, WorkerState
    <2>4. Aliases(w)'
      BY <2>1, <2>2, <2>3
    <2>5. lock' = lock /\ longTask' = longTask /\ cancelled' = cancelled /\ control' = control
      BY <1>15 DEF HandOff
    <2>6. Place(w)' /\ Closed(w)'
      BY <2>1, <2>5
    <2>7. Told(w)' /\ Named(w)'
      BY <2>1, <2>3, <2>5 DEF Active
    <2> QED BY <2>4, <2>6, <2>7
  <1>16. CASE SetCurrentRun(w)
    <2>1. /\ pc(w)' = "head" /\ index(w)' = index(w) /\ end(w)' = end(w)
          /\ pc(w) = "point" /\ index(w) \in 0..index(w)
      BY <1>16 DEF SetCurrentRun
    <2>2. /\ longTask'.status = longTask.status
          /\ Active => longTask'.current = <<w, index(w)>>
      <3>1. RunId(w) \in RunIds
        BY DEF RunId, RunIds
      <3>2. [longTask EXCEPT !.current = RunId(w)] \in State
            /\ [longTask EXCEPT !.current = RunId(w)].status = longTask.status
            /\ [longTask EXCEPT !.current = RunId(w)].current = RunId(w)
        BY <3>1 DEF State
      <3> QED BY <1>16, <3>2, WrittenType DEF SetCurrentRun, RunId
    <2> HIDE DEF pc, index, end, Step, WorkerState
    <2>3. /\ activeRuns' = activeRuns /\ cancelled' = cancelled /\ box' = box
          /\ lock' = lock /\ control' = control
      BY <1>16 DEF SetCurrentRun
    <2>4. Place(w)' /\ Aliases(w)' /\ Closed(w)' /\ Told(w)'
      BY <2>1, <2>2, <2>3
    <2>5. <<w, index(w)>> \in activeRuns
      BY <2>1
    <2>6. Named(w)'
      BY <2>2, <2>3, <2>5 DEF Active
    <2> QED BY <2>4, <2>6
  <1>17. CASE RecordLast(w)
    BY <1>17 DEF RecordLast, EndStatus
  <1>18. CASE Finish(w)
    BY <1>18 DEF Finish
  <1>19. CASE PutLast(w)
    BY <1>19 DEF PutLast, Leave, Locals, CloseBox
  <1>20. CASE Raises(w)
    <2>1. pc(w)' = "settle" /\ index(w)' = 0 /\ end(w)' = "none" /\ pc(w) \notin {"none", "gone"}
      BY <1>20, LeaveLocals DEF Raises
    <2> HIDE DEF pc, index, end, Step, WorkerState
    <2>2. lock' = Nobody /\ 0 \in 0..index(w)
      BY <1>20, LeaveLocals, WebRunsAssumption DEF Raises, TypeParts, index, WorkerState
    <2> QED BY <1>20, <2>1, <2>2 DEF Raises
  <1>21. CASE Settle(w)
    BY <1>21 DEF Settle, EndStatus
  <1>22. CASE Settling(w)
    BY <1>22 DEF Settling, Locals
  <1>23. CASE SettlingFails(w)
    BY <1>23 DEF SettlingFails, Locals
  <1>24. CASE Remove(w)
    BY <1>24 DEF Remove, Locals
  <1>25. CASE Drain(w)
    <2>1. pc(w) = "run" /\ worker' = worker /\ activeRuns' = activeRuns /\ lock' = lock
          /\ longTask' = longTask /\ cancelled' = cancelled /\ control' = control
      BY <1>25 DEF Drain
    <2> HIDE DEF pc, index, end, Step, WorkerState
    <2> QED BY <2>1 DEF pc, index, end, Active
  <1>12. CASE Decide(w)
    <2> HIDE DEF pc, index, end, Step, WorkerState
    <2>1. /\ activeRuns' = activeRuns /\ cancelled' = cancelled /\ box' = box
          /\ lock' = lock /\ control' = control /\ longTask' = longTask
      BY <1>12 DEF Decide
    <2>2. /\ pc(w) = "decide" /\ pc(w)' \in {"activate", "record", "put"}
          /\ index(w)' = index(w)
          /\ end(w)' = "completed" => end(w) = "completed"
          /\ worker'[w].final \in EndStatus
          /\ pc(w)' = "activate" => Limited(w) /\ longTask.status # "cancelling"
      BY <1>12, DecideLocals
    <2>3. Closed(w)'
      BY <2>1, <2>2
    <2>4. Place(w)' /\ Aliases(w)' /\ Told(w)' /\ Named(w)'
      BY <2>1, <2>2
    <2> QED BY <2>3, <2>4
  <1> QED
    BY <1>1, <1>2, <1>3, <1>4, <1>5, <1>6, <1>7, <1>8, <1>9, <1>10, <1>11, <1>12, <1>13, <1>14,
       <1>15, <1>16, <1>17, <1>18, <1>19, <1>20, <1>21, <1>22, <1>23, <1>24, <1>25
       DEF WorkerStep, RunEnds

(* Nothing that another worker does disturbs it.                           *)
LEMMA OtherStep ==
    ASSUME TypeParts, NEW w \in Workers, WorkerInv(w), NEW v \in Workers \ {w}, Place(v),
           StreamChat(v) \/ WorkerStep(v) \/ Drain(v) \/ Raises(v) \/ SettlingFails(v)
    PROVE  WorkerInv(w)'
  <1>1. /\ worker'[w] = worker[w] /\ box'[w] = box[w] /\ control' = control
        /\ w \in cancelled' <=> w \in cancelled
        /\ \A i \in 0..MaxRuns : <<w, i>> \in activeRuns => <<w, i>> \in activeRuns'
        /\ lock' = w <=> lock = w
        /\ lock = w => longTask' = longTask \/ ~Active'
    BY OtherWorker
  <1>2. pc(w)' = pc(w) /\ index(w)' = index(w) /\ end(w)' = end(w) /\ index(w) \in 0..MaxRuns
    BY <1>1 DEF pc, index, end, TypeParts, WorkerState
  <1>3. Place(w)' /\ Closed(w)'
    BY <1>1, <1>2 DEF Place, Closed, Limited, WorkerInv
  <1>4. \A i \in 0..index(w) : i \in 0..MaxRuns
    BY <1>2, WebRunsAssumption
  <1>5. Aliases(w)'
    BY <1>1, <1>2, <1>4 DEF Aliases, WorkerInv
  <1>6. Told(w)'
    <2>1. Linking(w) => lock = w
      BY DEF Linking, Place, WorkerInv
    <2>2. Linking(w)' = Linking(w)
      BY <1>2 DEF Linking
    <2> QED BY <1>1, <2>1, <2>2 DEF Told, WorkerInv, Active, ActiveStatus
  <1>7. Named(w)'
    <2>1. Continuing(w) => lock = w
      BY DEF Continuing, Place, WorkerInv
    <2>2. Continuing(w)' = Continuing(w)
      BY <1>2 DEF Continuing
    <2>3. ASSUME Continuing(w), Active'
          PROVE  longTask'.current \in activeRuns' /\ longTask'.current[1] = w
      <3>1. longTask' = longTask /\ Active
        BY <1>1, <2>1, <2>3 DEF Active
      <3>2. longTask.current \in activeRuns /\ longTask.current[1] = w
        BY <2>3, <3>1 DEF Named, WorkerInv
      <3>3. PICK i \in 0..MaxRuns : longTask.current = <<w, i>>
        BY <3>2 DEF RunIds, TypeParts
      <3> QED BY <1>1, <3>1, <3>2, <3>3
    <2> QED BY <2>2, <2>3 DEF Named
  <1> QED BY <1>3, <1>5, <1>6, <1>7 DEF WorkerInv

(* What the controls do to a worker.                                       *)
LEMMA CancelSeen ==
    ASSUME TypeParts, NEW w \in Workers, WorkerInv(w), NEW c \in Controls, CancelEvents(c)
    PROVE  Told(w)'
  <1>1. worker' = worker /\ longTask' = longTask /\ activeRuns' = activeRuns
        /\ cancelled' = cancelled \cup {v \in Workers : Registered(v)}
    BY DEF CancelEvents
  <1>2. Linking(w) => Registered(w)
    <2>1. ASSUME Linking(w) PROVE <<w, 0>> \in activeRuns
      <3>1. 0 \in 0..index(w) /\ pc(w) \notin {"none", "gone"}
        BY <2>1, WebRunsAssumption DEF Linking, TypeParts, WorkerState, index
      <3> QED BY <3>1 DEF WorkerInv, Aliases
    <2> QED BY <2>1 DEF Registered
  <1>3. Linking(w)' = Linking(w)
    BY <1>1 DEF Linking, pc, index
  <1> QED BY <1>1, <1>2, <1>3 DEF Told

LEMMA ControlKeeps ==
    ASSUME TypeParts, NEW w \in Workers, WorkerInv(w),
           \/ \E v \in Workers : CancelRun(v) \/ SubmitGuidance(v)
           \/ \E c \in Controls : RequestCancel(c) \/ PollState(c) \/ ControlStep(c)
           \/ SwitchOn \/ SwitchOff \/ GraceEnds
    PROVE  WorkerInv(w)'
  <1> USE DEF webVars, others
  <1>1. worker' = worker /\ lock' = lock /\ activeRuns' = activeRuns
    BY DEF CancelRun, SubmitGuidance, RequestCancel, PollState, ControlStep, CancelEvents,
       CancelOrphan, PollRuns, Reconcile, SwitchOn, SwitchOff, GraceEnds
  <1>2. w \in cancelled => w \in cancelled'
    BY DEF CancelRun, SubmitGuidance, RequestCancel, PollState, ControlStep, CancelEvents,
       CancelOrphan, PollRuns, Reconcile, SwitchOn, SwitchOff, GraceEnds
  <1>3. box[w] = NoBox => box'[w] = NoBox
    <2>1. ASSUME NEW v \in Workers, CancelRun(v) PROVE box[w] = NoBox => box'[w] = NoBox
      BY <2>1 DEF CancelRun, CloseBox, TypeParts
    <2>2. ASSUME NEW v \in Workers, SubmitGuidance(v) PROVE box[w] = NoBox => box'[w] = NoBox
      <3>1. NoBox.open = FALSE
        BY DEF NoBox
      <3>2. CASE v = w
        BY <2>2, <3>1, <3>2 DEF SubmitGuidance
      <3>3. CASE v # w
        BY <2>2, <3>3 DEF SubmitGuidance, TypeParts
      <3> QED BY <3>2, <3>3
    <2>3. ASSUME NEW c \in Controls, CancelEvents(c) PROVE box[w] = NoBox => box'[w] = NoBox
      BY <2>3 DEF CancelEvents
    <2>4. \/ box' = box
          \/ \E v \in Workers : CancelRun(v) \/ SubmitGuidance(v)
          \/ \E c \in Controls : CancelEvents(c)
      BY DEF RequestCancel, PollState, ControlStep, CancelOrphan, PollRuns, Reconcile,
         SwitchOn, SwitchOff, GraceEnds
    <2> QED BY <2>1, <2>2, <2>3, <2>4
  <1>4. /\ Active' => Active /\ longTask'.current = longTask.current
        /\ longTask'.status = "cancelling" =>
              longTask.status = "cancelling" \/ \E c \in Controls : RequestCancel(c)
    <2>0. longTask \in State /\ control \in [Controls -> ControlState]
      BY DEF TypeParts
    <2>1. CASE SwitchOn \/ SwitchOff
      BY <2>0, <2>1, SwitchType
    <2>2. ASSUME NEW c \in Controls, RequestCancel(c)
          PROVE  Active' => Active /\ longTask'.current = longTask.current
      BY <2>0, <2>2, RequestType
    <2>3. ASSUME NEW c \in Controls, CancelOrphan(c) \/ Reconcile(c)
          PROVE  longTask' = longTask \/ longTask'.status \in EndStatus
      BY <2>0, <2>3, OrphanedType DEF CancelOrphan, Reconcile
    <2>4. CASE GraceEnds
      BY <2>0, <2>4 DEF GraceEnds, State, Active
    <2>5. \/ SwitchOn \/ SwitchOff \/ GraceEnds \/ longTask' = longTask
          \/ \E c \in Controls : RequestCancel(c) \/ CancelOrphan(c) \/ Reconcile(c)
      BY DEF CancelRun, SubmitGuidance, PollState, ControlStep, CancelEvents, PollRuns
    <2> QED BY <2>1, <2>2, <2>3, <2>4, <2>5 DEF Active, ActiveStatus, EndStatus
  <1>5. Told(w)'
    <2>1. ASSUME NEW c \in Controls, CancelEvents(c) PROVE Told(w)'
      BY <2>1, CancelSeen
    <2>2. ASSUME NEW c \in Controls, RequestCancel(c) PROVE Told(w)'
      BY <2>2, RequestType DEF Told, TypeParts
    <2>3. ASSUME \A c \in Controls : ~CancelEvents(c) /\ ~RequestCancel(c) PROVE Told(w)'
      <3>1. \A c \in Controls : control[c].pc = "event" => control'[c].pc = "event"
        BY <2>3 DEF CancelRun, SubmitGuidance, PollState, ControlStep,
           CancelOrphan, PollRuns, Reconcile, SwitchOn, SwitchOff, GraceEnds, TypeParts
      <3>2. Linking(w)' = Linking(w)
        BY <1>1 DEF Linking, pc, index
      <3> QED BY <1>2, <1>4, <2>3, <3>1, <3>2 DEF Told, WorkerInv
    <2> QED BY <2>1, <2>2, <2>3
  <1> QED
    BY <1>1, <1>3, <1>4, <1>5
       DEF WorkerInv, Place, Aliases, Closed, Limited, Named, Continuing, pc, index, end

LEMMA CrashKeeps ==
    ASSUME TypeParts, NEW w \in Workers, WorkerInv(w), HostCrash
    PROVE  WorkerInv(w)'
  <1>1. /\ pc(w)' \in {"none", "gone"} /\ index(w)' = 0 /\ end(w)' = "none"
        /\ lock' = Nobody /\ w # Nobody
    BY LocalsType, WebRunsAssumption DEF HostCrash, pc, index, end
  <1> QED
    BY <1>1 DEF WorkerInv, Place, Aliases, Closed, Limited, Told, Named, Linking, Continuing

(* Polls.                                                                  *)

\* A worker's step writes something new into the record, ends the task, or
\* leaves the record alone and continues nothing.
LEMMA WorkerWrites ==
    ASSUME TypeParts, NEW w \in Workers, Place(w),
           StreamChat(w) \/ WorkerStep(w) \/ Drain(w) \/ Raises(w) \/ SettlingFails(w)
    PROVE  /\ \A v \in Workers \ {w} : Continuing(v)' = Continuing(v)
           /\ Active' /\ (longTask' = longTask \/ ~longTask'.fresh) =>
                 longTask' = longTask /\ (Continuing(w)' => Continuing(w))
  <1> USE DEF webVars, others
  <1>0. longTask \in State /\ worker[w] \in WorkerState
    BY DEF TypeParts
  <1>1. \A v \in Workers \ {w} : worker'[v] = worker[v]
    BY DEF StreamChat, WorkerStep, Drain, Raises, SettlingFails, TakeLock, Exhausted,
       HeadCancelled, HeadPlanStopped, StartRun, RunEnds, Complete, LastRequest, PlanBoundary,
       GuardStops, LimitHit, CancelNoticed, RunFails, RunLeft, RunOver, Decide, Activate,
       Count, HandOff,
       SetCurrentRun, Unpublished, RecordLast, Finish, PutLast, Settle, Settling, Remove,
       FinishAndPut, Step, Goto, Leave, TypeParts
  <1>7. \A v \in Workers \ {w} : Continuing(v)' = Continuing(v)
    BY <1>1 DEF Continuing, pc, index
  <1> SUFFICES ASSUME Active', longTask' = longTask \/ ~longTask'.fresh
               PROVE  longTask' = longTask /\ (Continuing(w)' => Continuing(w))
    BY <1>7
  <1>2. CASE Count(w) \/ RecordLast(w)
    <2>1. RecordRun(w)
      BY <1>2 DEF Count, RecordLast
    <2>2. longTask' = longTask
      BY <2>1, RecordRunType DEF Active
    <2>3. ~(longTask'.runs < MaxRuns)
      BY <2>1, <2>2, RecordRunType
    <2>4. PICK final \in EndStatus \cup {worker[w].final} :
             Step(w, [worker[w] EXCEPT !.pc = "finish", !.final = final])
      BY <1>2, <2>3 DEF Count, RecordLast, EndStatus
    <2>5. pc(w)' = "finish"
      BY <1>0, <2>4 DEF Step, pc, TypeParts, WorkerState
    <2> QED BY <2>2, <2>5 DEF Continuing
  <1>3. CASE Finish(w) \/ Settling(w)
    <2>1. longTask'.status \in EndStatus
      BY <1>0, <1>3, FinishType DEF Finish, Settling, Place
    <2> QED BY <2>1 DEF Active, ActiveStatus, EndStatus
  <1>4. CASE SetCurrentRun(w)
    <2>1. RunId(w) \in RunIds
      BY <1>0 DEF RunId, RunIds, WorkerState
    <2>2. [longTask EXCEPT !.current = RunId(w)] \in State
      BY <1>0, <2>1 DEF State
    <2>3. longTask' = longTask \/ longTask'.fresh
      BY <1>4, <2>2, WrittenType DEF SetCurrentRun, Active
    <2> QED BY <1>4, <2>3 DEF SetCurrentRun, Continuing
  <1>5. CASE Activate(w)
    <2>2. longTask' = longTask \/ longTask'.fresh
      BY <1>0, <1>5, ActivateType
    <2>3. pc(w)' \in {"count", "record", "put"}
      BY <1>0, <1>5 DEF Activate, Step, pc, WorkerState, TypeParts
    <2> QED BY <2>2, <2>3 DEF Continuing
  <1>6. CASE ~(\/ Count(w) \/ RecordLast(w) \/ Finish(w) \/ Settling(w) \/ SetCurrentRun(w)
               \/ Activate(w))
    <2>1. longTask' = longTask
      BY <1>6 DEF StreamChat, WorkerStep, Drain, Raises, SettlingFails, TakeLock, Exhausted,
         HeadCancelled, HeadPlanStopped, StartRun, RunEnds, Complete, LastRequest, PlanBoundary,
         GuardStops, LimitHit, CancelNoticed, RunFails, RunLeft, RunOver, Decide, HandOff,
         Unpublished, PutLast, Settle, Remove
    <2>2. ASSUME Continuing(w)' PROVE Continuing(w)
      <3>1. CASE TakeLock(w) \/ StartRun(w) \/ HandOff(w) \/ StreamChat(w) \/ Drain(w)
        <4>1. CASE TakeLock(w) \/ StreamChat(w)
          <5>1. pc(w) \in {"none", "lock"} /\ index(w)' = index(w)
            BY <1>0, <4>1
               DEF TakeLock, StreamChat, Goto, Step, pc, index, TypeParts, WorkerState
          <5>2. pc(w)' \in {"lock", "head"} /\ index(w) = 0
            BY <1>0, <4>1, <5>1
               DEF TakeLock, StreamChat, Goto, Step, pc, TypeParts, WorkerState, Place
          <5> QED BY <2>2, <5>1, <5>2 DEF Continuing
        <4>2. CASE StartRun(w)
          <5>1. pc(w) = "head" /\ index(w)' = index(w) /\ pc(w)' = "run"
            BY <1>0, <4>2 DEF StartRun, Step, pc, index, TypeParts, WorkerState
          <5> QED BY <2>2, <5>1 DEF Continuing
        <4>3. CASE HandOff(w) \/ Drain(w)
          BY <2>2, <4>3 DEF HandOff, Drain, Continuing, pc, index
        <4> QED BY <3>1, <4>1, <4>2, <4>3
      <3>2. CASE Raises(w) \/ RunLeft(w) \/ Unpublished(w) \/ PutLast(w)
        BY <2>2, <3>2, LeaveLocals DEF Raises, RunLeft, Unpublished, PutLast, Continuing
      <3>3. CASE SettlingFails(w) \/ Remove(w)
        BY <2>2, <3>3, LocalsType, StepType DEF SettlingFails, Remove, Continuing, pc
      <3>4. CASE Decide(w)
        BY <2>2, <3>4, DecideLocals DEF Continuing
      <3>5. CASE HeadCancelled(w) \/ RunFails(w)
        <4>1. PICK status \in EndStatus : FinishAndPut(w, status)
          BY <3>5 DEF HeadCancelled, RunFails, EndStatus
        <4>2. pc(w)' \in {"finish", "put"}
          BY <1>0, <4>1 DEF FinishAndPut, Step, pc, TypeParts, WorkerState
        <4> QED BY <2>2, <4>2 DEF Continuing
      <3>6. CASE HeadPlanStopped(w) \/ Settle(w)
        <4>1. pc(w)' \in {"finish", "settling", "remove"}
          <5>1. CASE HeadPlanStopped(w)
            BY <1>0, <5>1 DEF HeadPlanStopped, Step, pc, TypeParts, WorkerState
          <5>2. PICK status \in {"cancelled", "ended"} :
                   Settle(w) => Step(w, IF Active
                      THEN [worker[w] EXCEPT !.pc = "settling", !.final = status]
                      ELSE [worker[w] EXCEPT !.pc = "remove"])
            BY DEF Settle
          <5>3. CASE Settle(w)
            BY ZenonT(60), <1>0, <5>2, <5>3 DEF Step, pc, TypeParts, WorkerState
          <5> QED BY <3>6, <5>1, <5>3
        <4> QED BY <2>2, <4>1 DEF Continuing
      <3>7. CASE Exhausted(w)
        <4>1. CASE Leave(w)
          BY <2>2, <4>1, LeaveLocals DEF Continuing
        <4>2. CASE Step(w, [worker[w] EXCEPT !.pc = "finish", !.final = "paused"])
          BY <1>0, <2>2, <4>2 DEF Step, Continuing, pc, TypeParts, WorkerState
        <4> QED BY <3>7, <4>1, <4>2 DEF Exhausted
      <3>8. ASSUME NEW how \in {"completed", "stopped", "planned", "limited", "cancelled"},
                    RunOver(w, how)
            PROVE  FALSE
        BY <1>0, <2>2, <3>8 DEF RunOver, Step, Continuing, pc, TypeParts, WorkerState
      <3> QED
        BY <1>6, <3>1, <3>2, <3>3, <3>4, <3>5, <3>6, <3>7, <3>8
           DEF WorkerStep, RunEnds, Complete, LastRequest, PlanBoundary, GuardStops,
              LimitHit, CancelNoticed
    <2> QED BY <2>1, <2>2
  <1> QED BY <1>2, <1>3, <1>4, <1>5, <1>6

\* Every step keeps what a poll relies on.
LEMMA PollStep ==
    ASSUME TypeParts, \A w \in Workers : WorkerInv(w), \A c \in Controls : PollInv(c),
           Next, NEW d \in Controls
    PROVE  PollInv(d)'
  <1> USE DEF webVars, others
  <1>0. longTask \in State /\ control \in [Controls -> ControlState]
    BY DEF TypeParts
  <1>o. Active' /\ d \notin overtaken' /\ control'[d].pc \in {"look", "reconcile"} =>
           d \notin overtaken /\ (longTask' = longTask \/ ~longTask'.fresh)
    BY DEF Next, Overtaking
  <1>1. ASSUME NEW w \in Workers,
               StreamChat(w) \/ WorkerStep(w) \/ Drain(w) \/ Raises(w) \/ SettlingFails(w)
        PROVE  PollInv(d)'
    <2>1. control' = control
      BY <1>1 DEF StreamChat, WorkerStep, Drain, Raises, SettlingFails, TakeLock, Exhausted,
       HeadCancelled, HeadPlanStopped, StartRun, RunEnds, Complete, LastRequest, PlanBoundary,
       GuardStops, LimitHit, CancelNoticed, RunFails, RunLeft, RunOver, Decide, Activate,
       Count, HandOff,
       SetCurrentRun, Unpublished, RecordLast, Finish, PutLast, Settle, Settling, Remove
    <2>2. Active' /\ (longTask' = longTask \/ ~longTask'.fresh) =>
             longTask' = longTask /\ \A v \in Workers : Continuing(v)' => Continuing(v)
      BY <1>1, WorkerWrites DEF WorkerInv
    <2> QED BY <1>o, <2>1, <2>2 DEF PollInv, Active
  <1>2. ASSUME NEW w \in Workers, CancelRun(w) \/ SubmitGuidance(w)
        PROVE  PollInv(d)'
    BY <1>2, <1>o DEF CancelRun, SubmitGuidance, PollInv, Active, Continuing, pc, index
  <1>3. CASE \/ \E c \in Controls : RequestCancel(c)
             \/ SwitchOn \/ SwitchOff
    <2>1. Active' => longTask'.fresh
      BY <1>0, <1>3, RequestType, SwitchType
    <2>2. worker' = worker /\ (control'[d] = control[d] \/ control'[d].pc = "event")
      BY <1>0, <1>3, RequestType DEF RequestCancel, SwitchOn, SwitchOff
    <2> QED BY <1>o, <2>1, <2>2 DEF PollInv, Active, Continuing, pc, index
  <1>4. ASSUME NEW c \in Controls, CancelEvents(c)
        PROVE  PollInv(d)'
    <2>1. control'[d] = control[d] \/ control'[d].pc \in {"idle", "orphan"}
      BY <1>0, <1>4, TypeRecords DEF CancelEvents, Idle
    <2> QED BY <1>4, <1>o, <2>1 DEF CancelEvents, PollInv, Active, Continuing, pc, index
  <1>5. ASSUME NEW c \in Controls, CancelOrphan(c) \/ Reconcile(c)
        PROVE  PollInv(d)'
    <2>1. longTask' = longTask \/ longTask'.status \in EndStatus
      BY <1>0, <1>5, OrphanedType DEF CancelOrphan, Reconcile
    <2>2. control'[d] = control[d] \/ control'[d].pc = "idle"
      BY <1>0, <1>5, TypeRecords DEF CancelOrphan, Reconcile
    <2>3. worker' = worker
      BY <1>5 DEF CancelOrphan, Reconcile
    <2> QED
      BY <1>o, <2>1, <2>2, <2>3 DEF PollInv, Active, ActiveStatus, EndStatus, Continuing, pc,
         index
  <1>6. ASSUME NEW c \in Controls, PollState(c)
        PROVE  PollInv(d)'
    <2>1. \/ control'[d] = control[d]
          \/ control'[d].pc = "look" /\ control'[d].current = longTask.current
      BY <1>0, <1>6, TypeRecords DEF PollState, ControlState
    <2> QED BY <1>6, <1>o, <2>1 DEF PollState, PollInv, Active, Continuing, pc, index
  <1>7. ASSUME NEW c \in Controls, PollRuns(c)
        PROVE  PollInv(d)'
    <2>1. longTask' = longTask /\ worker' = worker /\ control[c].pc = "look"
      BY <1>7 DEF PollRuns
    <2>2. \/ control'[d] = control[d]
          \/ control'[d].pc = "idle"
          \/ d = c /\ control'[d].pc = "reconcile" /\ control[c].current \notin activeRuns
      <3>1. [Idle EXCEPT !.pc = "reconcile"].pc = "reconcile"
        BY TypeRecords DEF ControlState
      <3> QED BY <1>0, <1>7, <3>1, TypeRecords DEF PollRuns
    <2>3. ASSUME Active, c \notin overtaken, control[c].current \notin activeRuns,
                 NEW w \in Workers
          PROVE  ~Continuing(w)
      <3>1. control[c].current = longTask.current
        BY <2>1, <2>3 DEF PollInv
      <3> QED BY <2>3, <3>1 DEF WorkerInv, Named
    <2>4. /\ Active' = Active
          /\ \A w \in Workers : Continuing(w)' = Continuing(w)
      BY <2>1 DEF Active, Continuing, pc, index
    <2>5. CASE control'[d] = control[d]
      BY <1>o, <2>1, <2>4, <2>5 DEF PollInv
    <2>6. CASE control'[d].pc = "idle"
      BY <2>6 DEF PollInv
    <2>7. CASE d = c /\ control'[d].pc = "reconcile" /\ control[c].current \notin activeRuns
      BY <1>o, <2>3, <2>4, <2>7 DEF PollInv
    <2> QED BY <2>2, <2>5, <2>6, <2>7
  <1>8. CASE GraceEnds
    <2>1. longTask'.status = longTask.status /\ longTask'.current = longTask.current
      BY <1>0, <1>8 DEF GraceEnds, State
    <2> QED BY <1>8, <1>o, <2>1 DEF GraceEnds, PollInv, Active, Continuing, pc, index
  <1>9. CASE HostCrash
    BY <1>9, TypeRecords DEF HostCrash, PollInv
  <1> QED
    BY <1>1, <1>2, <1>3, <1>4, <1>5, <1>6, <1>7, <1>8, <1>9 DEF Next, HostStep, ControlStep

LEMMA InvStep ==
    ASSUME IInv, [Next]_vars
    PROVE  IInv'
  <1>1. TypeParts /\ (\A w \in Workers : WorkerInv(w)) /\ \A c \in Controls : PollInv(c)
    BY TypeByParts DEF IInv
  <1>2. TypeOK'
    BY TypeStep DEF IInv, WorkerInv
  <1>3. CASE UNCHANGED vars
    BY <1>1, <1>2, <1>3
       DEF IInv, vars, webVars, others, WorkerInv, Place, Aliases, Closed, Limited, Told,
          Named, PollInv,
           Linking, Continuing, Active, pc, index, end
  <1>4. CASE Next
    <2>1. ASSUME NEW w \in Workers PROVE WorkerInv(w)'
      <3>1. ASSUME NEW v \in Workers,
                   StreamChat(v) \/ WorkerStep(v) \/ Drain(v) \/ Raises(v) \/ SettlingFails(v)
            PROVE  WorkerInv(w)'
        <4>1. CASE v = w
          BY <1>1, <3>1, <4>1, OwnStep
        <4>2. CASE v # w
          BY <1>1, <3>1, <4>2, OtherStep DEF WorkerInv
        <4> QED BY <4>1, <4>2
      <3>2. CASE HostCrash
        BY <1>1, <3>2, CrashKeeps
      <3>3. CASE \/ \E v \in Workers : CancelRun(v) \/ SubmitGuidance(v)
                 \/ \E c \in Controls : RequestCancel(c) \/ PollState(c) \/ ControlStep(c)
                 \/ SwitchOn \/ SwitchOff \/ GraceEnds
        BY <1>1, <3>3, ControlKeeps
      <3> QED BY <1>4, <3>1, <3>2, <3>3 DEF Next, HostStep
    <2>2. ASSUME NEW d \in Controls PROVE PollInv(d)'
      BY <1>1, <1>4, PollStep
    <2> QED BY <1>2, <2>1, <2>2 DEF IInv
  <1> QED BY <1>3, <1>4

LEMMA InvInit == Init => IInv
  <1> SUFFICES ASSUME Init PROVE IInv
    OBVIOUS
  <1>1. TypeParts
    <2>1. [EmptyState EXCEPT !.enabled = FALSE, !.status = "disabled"] \in State
      BY TypeRecords DEF State, TerminalStatus
    <2> QED BY <2>1, LocalsType, TypeRecords, WebRunsAssumption DEF Init, TypeParts
  <1>2. ASSUME NEW w \in Workers PROVE WorkerInv(w)
    <2>1. pc(w) = "none" /\ index(w) = 0 /\ end(w) = "none" /\ lock # w
      BY LocalsType, WebRunsAssumption DEF Init, pc, index, end
    <2> QED
      BY <2>1 DEF WorkerInv, Place, Aliases, Closed, Limited, Told, Named, Linking, Continuing
  <1>3. ASSUME NEW c \in Controls PROVE PollInv(c)
    BY TypeRecords DEF Init, PollInv
  <1> QED BY <1>1, <1>2, <1>3, TypeByParts DEF IInv, Init

LEMMA Invariant == Spec => []IInv
  BY InvInit, InvStep, PTL DEF Spec

(* An active task has a worker, as long as there is no fault.              *)
Live(w) == pc(w) \notin {"none", "remove", "gone"}

LEMMA StaysLive ==
    ASSUME TypeParts, NEW w \in Workers, StreamChat(w) \/ WorkerStep(w) \/ Drain(w) \/ Raises(w),
           ~Settle(w), ~Settling(w), ~Remove(w)
    PROVE  Live(w)'
  <1>0. worker[w] \in WorkerState
    BY DEF TypeParts
  <1>2. CASE StreamChat(w) \/ TakeLock(w) \/ SetCurrentRun(w)
    BY <1>0, <1>2
       DEF StreamChat, TakeLock, SetCurrentRun, Goto, Step, Live, pc, TypeParts, WorkerState
  <1>3. ASSUME Leave(w) PROVE Live(w)'
    BY <1>3, LeaveLocals DEF Live
  <1>4. CASE Exhausted(w)
    <2>1. CASE Step(w, [worker[w] EXCEPT !.pc = "finish", !.final = "paused"])
      BY <1>0, <2>1 DEF Step, Live, pc, TypeParts, WorkerState
    <2> QED BY <1>3, <1>4, <2>1 DEF Exhausted
  <1>5. ASSUME NEW status \in EndStatus, FinishAndPut(w, status) PROVE Live(w)'
    BY <1>0, <1>5 DEF FinishAndPut, Step, Live, pc, TypeParts, WorkerState
  <1>6. CASE HeadPlanStopped(w) \/ StartRun(w)
    <2>1. CASE HeadPlanStopped(w)
      BY <1>0, <2>1 DEF HeadPlanStopped, Step, Live, pc, TypeParts, WorkerState
    <2>2. CASE StartRun(w)
      BY <1>0, <2>2 DEF StartRun, Step, Live, pc, TypeParts, WorkerState
    <2> QED BY <1>6, <2>1, <2>2
  <1>7. ASSUME NEW how \in {"completed", "stopped", "planned", "limited", "cancelled"},
               RunOver(w, how)
        PROVE  Live(w)'
    BY <1>0, <1>7 DEF RunOver, Step, Live, pc, TypeParts, WorkerState
  <1>8. CASE Decide(w)
    BY <1>8, DecideLocals DEF Live
  <1>9. CASE Activate(w)
    BY <1>0, <1>9 DEF Activate, Step, Live, pc, TypeParts, WorkerState
  <1>10. CASE Count(w)
    BY <1>0, <1>10 DEF Count, Step, Live, pc, TypeParts, WorkerState
  <1>11. CASE HandOff(w)
    BY <1>0, <1>11 DEF HandOff, Step, Live, pc, TypeParts, WorkerState
  <1>12. CASE RecordLast(w) \/ Finish(w)
    <2>1. PICK final \in EndStatus \cup {worker[w].final, "none"} :
             \/ Step(w, [worker[w] EXCEPT !.pc = "finish", !.final = final])
             \/ Step(w, [worker[w] EXCEPT !.pc = "put", !.final = final])
      BY <1>12 DEF RecordLast, Finish, EndStatus
    <2>2. final \in {"none"} \cup EndStatus
      BY <1>0 DEF WorkerState
    <2>3. CASE Step(w, [worker[w] EXCEPT !.pc = "finish", !.final = final])
      BY <1>0, <2>2, <2>3, StepWith DEF Live
    <2>4. CASE Step(w, [worker[w] EXCEPT !.pc = "put", !.final = final])
      BY <1>0, <2>2, <2>4, StepWith DEF Live
    <2> QED BY <2>1, <2>3, <2>4
  <1>13. CASE Drain(w)
    BY <1>13 DEF Drain, Live, pc
  <1> QED
    BY <1>2, <1>3, <1>4, <1>5, <1>6, <1>7, <1>8, <1>9, <1>10, <1>11, <1>12, <1>13
       DEF WorkerStep, RunEnds, Complete, LastRequest, PlanBoundary, GuardStops, LimitHit,
          CancelNoticed,
           RunFails, HeadCancelled, RunLeft, Unpublished, PutLast, Raises, EndStatus

LEMMA OwnedStep ==
    ASSUME IInv, ActiveIsOwned, [Next]_vars
    PROVE  ActiveIsOwned'
  <1>0. TypeParts /\ longTask \in State /\ \A w \in Workers : Place(w)
    BY TypeByParts DEF IInv, WorkerInv, TypeParts
  <1>f. faults \in Nat /\ faults + 1 # 0
    BY <1>0, WebRunsAssumption DEF TypeParts
  <1>o. faults = 0 /\ Active => \E w \in Workers : Live(w)
    BY DEF ActiveIsOwned, Live
  <1> SUFFICES ASSUME faults' = 0, Active'
               PROVE  \E w \in Workers : Live(w)'
    BY DEF ActiveIsOwned, Live
  <1> USE DEF webVars, others
  <1>1. ASSUME NEW w \in Workers,
               StreamChat(w) \/ WorkerStep(w) \/ Drain(w) \/ Raises(w) \/ SettlingFails(w)
        PROVE  \E v \in Workers : Live(v)'
    <2>1. ASSUME NEW u \in Workers \ {w} PROVE Live(u)' = Live(u)
      BY <1>0, <1>1, <2>1, OtherWorker DEF pc, Live
    <2>2. faults' = faults \/ faults' = faults + 1
      BY <1>1 DEF StreamChat, WorkerStep, Drain, Raises, SettlingFails, TakeLock, Exhausted,
       HeadCancelled, HeadPlanStopped, StartRun, RunEnds, Complete, LastRequest, PlanBoundary,
       GuardStops, LimitHit, CancelNoticed, RunFails, RunLeft, RunOver, Decide, Activate,
       Count, HandOff,
       SetCurrentRun, Unpublished, RecordLast, Finish, PutLast, Settle, Settling, Remove
    <2>3. faults = 0 /\ ~SettlingFails(w)
      BY <1>f, <2>2 DEF SettlingFails
    <2>4. ~Settling(w)
      <3>1. Settling(w) => longTask'.status \in EndStatus
        BY <1>0, FinishType DEF Settling, Place
      <3> QED BY <3>1 DEF Active, ActiveStatus, EndStatus
    <2>5. CASE Settle(w)
      <3>1. Active
        BY <2>5 DEF Settle, Active
      <3>2. \E status \in EndStatus :
               Step(w, [worker[w] EXCEPT !.pc = "settling", !.final = status])
        BY <2>5, <3>1 DEF Settle, EndStatus
      <3>3. Live(w)'
        BY <1>0, <3>2 DEF Step, Live, pc, TypeParts, WorkerState
      <3> QED BY <3>3
    <2>6. CASE Remove(w)
      <3>1. Active /\ ~Live(w)
        BY <2>6 DEF Remove, Active, Live
      <3> QED BY <1>o, <2>1, <2>3, <3>1
    <2> QED BY <1>0, <1>1, <2>3, <2>4, <2>5, <2>6, StaysLive
  <1>2. ASSUME worker' = worker, faults' = faults, Active' => Active
        PROVE  \E v \in Workers : Live(v)'
    BY <1>o, <1>2 DEF Live, pc
  <1>3. ASSUME NEW w \in Workers, CancelRun(w) \/ SubmitGuidance(w)
        PROVE  \E v \in Workers : Live(v)'
    BY <1>2, <1>3 DEF CancelRun, SubmitGuidance, Active
  <1>4. CASE \/ \E c \in Controls : RequestCancel(c)
             \/ SwitchOn \/ SwitchOff
    BY <1>0, <1>2, <1>4, RequestType, SwitchType
       DEF RequestCancel, SwitchOn, SwitchOff, TypeParts
  <1>5. ASSUME NEW c \in Controls, PollState(c) \/ ControlStep(c)
        PROVE  \E v \in Workers : Live(v)'
    <2>1. worker' = worker /\ faults' = faults
      BY <1>5 DEF PollState, ControlStep, CancelEvents, CancelOrphan, PollRuns, Reconcile
    <2>2. longTask' = longTask \/ longTask'.status \in EndStatus
      BY <1>0, <1>5, OrphanedType
         DEF PollState, ControlStep, CancelEvents, CancelOrphan, PollRuns, Reconcile
    <2> QED BY <1>2, <2>1, <2>2 DEF Active, ActiveStatus, EndStatus
  <1>6. CASE GraceEnds
    BY <1>0, <1>2, <1>6 DEF GraceEnds, Active, State
  <1>7. CASE HostCrash
    BY <1>f, <1>7 DEF HostCrash
  <1>8. CASE UNCHANGED vars
    BY <1>2, <1>8 DEF vars, Active
  <1> QED BY <1>1, <1>3, <1>4, <1>5, <1>6, <1>7, <1>8 DEF Next, HostStep
(* Which steps start a run, and which complete one.                        *)
LEMMA OnlyStartRun ==
    ASSUME TypeOK, \A v \in Workers : Place(v), [Next]_vars, NEW w \in Workers,
           pc(w) = "head", worker'[w].pc = "run"
    PROVE  StartRun(w)
  <1>0. TypeParts /\ worker[w] \in WorkerState
    BY TypeByParts DEF TypeParts
  <1>1. worker'[w] # worker[w]
    BY DEF pc
  <1>2. ~HostCrash
    BY LocalsType DEF HostCrash
  <1>3. PICK v \in Workers :
           StreamChat(v) \/ WorkerStep(v) \/ Drain(v) \/ Raises(v) \/ SettlingFails(v)
    BY <1>1, <1>2
       DEF Next, HostStep, vars, CancelRun, SubmitGuidance, RequestCancel, PollState,
          ControlStep,
           CancelEvents, CancelOrphan, PollRuns, Reconcile, SwitchOn, SwitchOff, GraceEnds
  <1>4. v = w
    BY <1>0, <1>1, <1>3, OtherWorker
  <1>5. \/ Exhausted(w) \/ HeadCancelled(w) \/ HeadPlanStopped(w) \/ StartRun(w)
        \/ Unpublished(w) \/ Raises(w)
    BY <1>3, <1>4
       DEF StreamChat, WorkerStep, Drain, SettlingFails, TakeLock, RunEnds, Complete,
          LastRequest, PlanBoundary,
           GuardStops, LimitHit, CancelNoticed, RunFails, RunLeft, RunOver, Decide, Activate,
           Count, HandOff, SetCurrentRun, RecordLast, Finish, PutLast, Settle, Settling, Remove
  <1>6. ~Leave(w)
    BY <1>0, LeaveType, LocalsType
  <1>7. ~Exhausted(w)
    <2>1. ~Step(w, [worker[w] EXCEPT !.pc = "finish", !.final = "paused"])
      BY <1>0 DEF Step, TypeParts, WorkerState
    <2> QED BY <1>6, <2>1 DEF Exhausted
  <1>8. ~HeadCancelled(w)
    BY ZenonT(60), <1>0 DEF HeadCancelled, FinishAndPut, Step, TypeParts, WorkerState
  <1>9. ~HeadPlanStopped(w)
    BY ZenonT(60), <1>0 DEF HeadPlanStopped, Step, TypeParts, WorkerState
  <1> QED BY <1>5, <1>6, <1>7, <1>8, <1>9 DEF Unpublished, Raises

LEMMA EndStays ==
    ASSUME TypeParts, NEW w \in Workers, end(w) # "completed", ~Complete(w),
           StreamChat(w) \/ WorkerStep(w) \/ Drain(w) \/ Raises(w) \/ SettlingFails(w)
    PROVE  end(w)' # "completed"
  <1>0. worker[w] \in WorkerState
    BY DEF TypeParts
  <1>1. ASSUME NEW u \in WorkerState, u.end \in {end(w), "none"}, Step(w, u)
        PROVE  end(w)' # "completed"
    BY <1>1, StepType DEF end
  <1>2. ASSUME NEW where \in {"lock", "head", "count", "handoff", "point", "record", "finish",
                              "put", "settling", "remove"}
        PROVE  /\ [worker[w] EXCEPT !.pc = where] \in WorkerState
               /\ [worker[w] EXCEPT !.pc = where].end = end(w)
               /\ \A status \in EndStatus \cup {"none"} :
                     /\ [worker[w] EXCEPT !.pc = where, !.final = status] \in WorkerState
                     /\ [worker[w] EXCEPT !.pc = where, !.final = status].end = end(w)
    BY <1>0 DEF WorkerState, end
  <1>3. CASE StreamChat(w) \/ TakeLock(w) \/ SetCurrentRun(w)
    BY <1>1, <1>2, <1>3 DEF StreamChat, TakeLock, SetCurrentRun, Goto
  <1>4. ASSUME Leave(w) PROVE end(w)' # "completed"
    BY <1>4, LeaveLocals
  <1>5. CASE Exhausted(w)
    <2>1. CASE Step(w, [worker[w] EXCEPT !.pc = "finish", !.final = "paused"])
      BY <1>1, <1>2, <2>1 DEF EndStatus
    <2> QED BY <1>4, <1>5, <2>1 DEF Exhausted
  <1>6. ASSUME NEW status \in EndStatus, FinishAndPut(w, status) PROVE end(w)' # "completed"
    <2>1. CASE Active
      BY <1>1, <1>2, <1>6, <2>1 DEF FinishAndPut
    <2>2. CASE ~Active
      BY <1>1, <1>2, <1>6, <2>2 DEF FinishAndPut
    <2> QED BY <2>1, <2>2
  <1>7. CASE HeadPlanStopped(w)
    BY <1>1, <1>2, <1>7 DEF HeadPlanStopped
  <1>8. CASE StartRun(w)
    <2>1. [worker[w] EXCEPT !.pc = "run", !.end = "none"] \in WorkerState
          /\ [worker[w] EXCEPT !.pc = "run", !.end = "none"].end = "none"
      BY <1>0 DEF WorkerState
    <2> QED BY <1>1, <1>8, <2>1 DEF StartRun
  <1>9. ASSUME NEW how \in {"stopped", "planned", "limited", "cancelled"}, RunOver(w, how)
        PROVE  end(w)' # "completed"
    BY <1>9, StoppedLocals
  <1>10. CASE Decide(w)
    BY <1>10, DecideLocals
  <1>11. CASE Activate(w)
    <2> DEFINE where == IF longTask.enabled THEN "count"
                        ELSE IF worker[w].wasActive THEN "record" ELSE "put"
    <2>1. [worker[w] EXCEPT !.pc = where, !.wasActive = FALSE] \in WorkerState
          /\ [worker[w] EXCEPT !.pc = where, !.wasActive = FALSE].end = end(w)
      BY <1>0 DEF WorkerState, end
    <2> QED BY <1>1, <1>11, <2>1 DEF Activate
  <1>12. CASE Count(w)
    <2>1. CASE longTask'.runs < MaxRuns
      BY <1>1, <1>2, <1>12, <2>1 DEF Count
    <2>2. CASE ~(longTask'.runs < MaxRuns)
      BY <1>1, <1>2, <1>12, <2>2 DEF Count, EndStatus
    <2> QED BY <2>1, <2>2
  <1>13. CASE HandOff(w)
    BY <1>0, <1>13 DEF HandOff, Step, end, TypeParts, WorkerState
  <1>14. CASE RecordLast(w) \/ Finish(w)
    <2>1. PICK final \in EndStatus \cup {worker[w].final, "none"} :
             \/ Step(w, [worker[w] EXCEPT !.pc = "finish", !.final = final])
             \/ Step(w, [worker[w] EXCEPT !.pc = "put", !.final = final])
      BY <1>14 DEF RecordLast, Finish, EndStatus
    <2>2. worker[w].final \in EndStatus \cup {"none"}
      BY <1>0 DEF WorkerState
    <2> QED BY <1>1, <1>2, <2>1, <2>2
  <1>15. CASE Settle(w)
    <2>1. CASE Active
      <3>1. \E status \in EndStatus :
               Step(w, [worker[w] EXCEPT !.pc = "settling", !.final = status])
        BY <1>15, <2>1 DEF Settle, EndStatus
      <3> QED BY <1>1, <1>2, <3>1
    <2>2. CASE ~Active
      BY <1>1, <1>2, <1>15, <2>2 DEF Settle
    <2> QED BY <2>1, <2>2
  <1>16. CASE Settling(w) \/ SettlingFails(w) \/ Remove(w)
    BY <1>1, <1>16, LocalsType DEF Settling, SettlingFails, Remove
  <1>17. CASE Drain(w)
    BY <1>17 DEF Drain, end
  <1> QED
    BY <1>3, <1>4, <1>5, <1>6, <1>7, <1>8, <1>9, <1>10, <1>11, <1>12, <1>13, <1>14, <1>15,
    <1>16,
       <1>17
       DEF WorkerStep, RunEnds, LastRequest, PlanBoundary, GuardStops, LimitHit,
          CancelNoticed, RunFails,
           HeadCancelled, RunLeft, Unpublished, PutLast, Raises, EndStatus

LEMMA OnlyComplete ==
    ASSUME TypeOK, \A v \in Workers : Place(v), [Next]_vars, NEW w \in Workers,
           end(w) # "completed", box[w].unread
    PROVE  worker'[w].end # "completed"
  <1>0. TypeParts /\ worker[w] \in WorkerState
    BY TypeByParts DEF TypeParts
  <1>1. CASE worker'[w] = worker[w]
    BY <1>1 DEF end
  <1>2. CASE HostCrash
    BY <1>2, LocalsType DEF HostCrash
  <1>3. ASSUME NEW v \in Workers, worker'[w] # worker[w],
               StreamChat(v) \/ WorkerStep(v) \/ Drain(v) \/ Raises(v) \/ SettlingFails(v)
        PROVE  worker'[w].end # "completed"
    <2>1. v = w
      BY <1>0, <1>3, OtherWorker
    <2>2. ~Complete(w)
      BY DEF Complete
    <2> QED BY <1>0, <1>3, <2>1, <2>2, EndStays DEF end
  <1> QED
    BY <1>1, <1>2, <1>3
       DEF Next, HostStep, vars, CancelRun, SubmitGuidance, RequestCancel, PollState,
          ControlStep,
           CancelEvents, CancelOrphan, PollRuns, Reconcile, SwitchOn, SwitchOff, GraceEnds
-----------------------------------------------------------------------------
(* The theorems.                                                           *)

\* Whatever the threads of the host do, the state has its type: no worker is
\* continued beyond MAX_LONG_TASK_RUNS, and a task is only settled with a
\* status that ends it.
THEOREM RunsTypeCorrect == Spec => []TypeOK
  <1>1. IInv => TypeOK
    BY DEF IInv
  <1> QED BY <1>1, Invariant, PTL

\* Without a fault an active task always has a worker whose settling is still
\* to come (run_source, settle_abandoned_long_task).
THEOREM ActiveTasksAreOwned == Spec => []ActiveIsOwned
  <1>1. Init => ActiveIsOwned
    BY TypeRecords DEF Init, ActiveIsOwned, Active, ActiveStatus, EmptyState
  <1>2. IInv /\ ActiveIsOwned /\ [Next]_vars => ActiveIsOwned'
    BY OwnedStep
  <1> QED BY <1>1, <1>2, Invariant, PTL DEF Spec

\* A poll that found no live run for the task it read writes nothing while a
\* worker goes from one run to the next, unless the record was written since
\* the poll read it and that is more than five seconds ago
\* (long_task_state, reconcile_orphaned_long_task).
THEOREM HandOffsAreLive == Spec => HandOffIsLive
  <1>1. IInv /\ [Next]_vars =>
           [\A c \in Controls :
              control[c].pc = "reconcile" /\ control'[c] = Idle /\ Active /\ ~Slow(c)
              /\ (\E w \in Workers : Continuing(w)) => UNCHANGED longTask]_vars
    <2> SUFFICES ASSUME IInv, [Next]_vars, NEW c \in Controls,
                        control[c].pc = "reconcile", control'[c] = Idle, Active,
                        ~Slow(c), NEW w \in Workers, Continuing(w)
                 PROVE  UNCHANGED longTask
      OBVIOUS
    <2> USE DEF webVars, others
    <2>1. TypeParts /\ PollInv(c) /\ control'[c] # control[c]
      BY TypeByParts, TypeRecords DEF IInv
    <2>2. CASE Reconcile(c)
      BY <2>1, <2>2 DEF Reconcile, PollInv, Slow
    <2>3. CASE CancelOrphan(c) \/ CancelEvents(c) \/ PollRuns(c) \/ PollState(c) \/ RequestCancel(c)
      BY <2>3 DEF CancelOrphan, CancelEvents, PollRuns, PollState, RequestCancel
    <2>4. ASSUME NEW d \in Controls \ {c},
                 RequestCancel(d) \/ PollState(d) \/ ControlStep(d)
          PROVE  FALSE
      BY <2>1, <2>4 DEF RequestCancel, PollState, ControlStep, CancelEvents, CancelOrphan,
         PollRuns, Reconcile, TypeParts
    <2>5. CASE HostCrash
      BY <2>5 DEF HostCrash
    <2>6. control' # control
      BY <2>1
    <2>7. HostCrash \/ \E d \in Controls : RequestCancel(d) \/ PollState(d) \/ ControlStep(d)
      BY ZenonT(60), <2>6 DEF Next, HostStep, vars, StreamChat, WorkerStep, Drain, Raises,
         SettlingFails, TakeLock,
         Exhausted, HeadCancelled, HeadPlanStopped, StartRun, RunEnds, Complete, LastRequest,
         PlanBoundary, GuardStops, LimitHit, CancelNoticed, RunFails, RunLeft, RunOver,
         Decide, Activate,
         Count, HandOff, SetCurrentRun, Unpublished, RecordLast, Finish, PutLast, Settle,
         Settling, Remove, CancelRun, SubmitGuidance, SwitchOn, SwitchOff, GraceEnds
    <2> QED BY <2>2, <2>3, <2>4, <2>5, <2>7 DEF ControlStep
  <1> QED BY <1>1, Invariant, PTL DEF Spec, HandOffIsLive

\* A worker that goes from one run to the next while the task is being
\* cancelled has been told of it, or whoever asked is about to tell it
\* (cancel_long_task, run_source).
THEOREM CancelledTasksEnd == Spec => CancelIsFinal
  <1>1. IInv /\ [Next]_vars =>
           [\A w \in Workers :
              pc(w) = "head" /\ worker'[w].pc = "run" /\ index(w) > 0
              /\ longTask.status = "cancelling"
              => \E c \in Controls : control[c].pc = "event"]_vars
    <2> SUFFICES ASSUME IInv, [Next]_vars, NEW w \in Workers,
                        pc(w) = "head", worker'[w].pc = "run", index(w) > 0,
                        longTask.status = "cancelling"
                 PROVE  \E c \in Controls : control[c].pc = "event"
      OBVIOUS
    <2>1. TypeParts /\ Told(w) /\ Place(w) /\ worker[w] \in WorkerState
      BY TypeByParts DEF IInv, WorkerInv, TypeParts
    <2>2. StartRun(w) => \E c \in Controls : control[c].pc = "event"
      BY <2>1 DEF StartRun, Told, Linking
    <2> QED BY <2>2, OnlyStartRun DEF IInv, WorkerInv
  <1> QED BY <1>1, Invariant, PTL DEF Spec, CancelIsFinal

\* A message that submit_guidance has accepted into a run is taken from its
\* mailbox before the run ends because its model asks for no more tools
\* (drain_or_close), and none is in the mailbox that the hand-off to the next
\* run replaces.
THEOREM GuidanceIsRead == Spec => GuidanceRead
  <1>1. IInv /\ [Next]_vars =>
           [\A w \in Workers :
              Dropped(w) => worker'[w].end # "completed" /\ pc(w) # "handoff"]_vars
    <2> SUFFICES ASSUME IInv, [Next]_vars, NEW w \in Workers, Dropped(w)
                 PROVE  worker'[w].end # "completed" /\ pc(w) # "handoff"
      OBVIOUS
    <2>1. Closed(w) /\ box[w].unread
      BY DEF IInv, WorkerInv, Dropped
    <2>2. end(w) # "completed" /\ pc(w) # "handoff"
      BY <2>1, TypeRecords DEF Closed, NoBox
    <2> QED BY <2>1, <2>2, OnlyComplete DEF IInv, WorkerInv
  <1> QED BY <1>1, Invariant, PTL DEF Spec, GuidanceRead
=============================================================================
