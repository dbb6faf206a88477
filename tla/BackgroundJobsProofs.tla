------------------------ MODULE BackgroundJobsProofs ------------------------
(***************************************************************************)
(* Proofs about BackgroundJobs, for any number of jobs and threads: type   *)
(* correctness, that results are kept, that a job called over is over, and *)
(* that the answer is delivered after its required jobs.                   *)
(***************************************************************************)
EXTENDS BackgroundJobs, TLAPS

ClientState == [pc : {"idle", "judge", "settle", "kill"}, job : Jobs,
                pid : BOOLEAN, workerPid : BOOLEAN,
                verdict : {"none", "dying", "timeout", "unclear", "gone"}]

(* The inductive invariant.  Most of it speaks of executions without a     *)
(* fault: a fault is what lets a job be lost from sight.                   *)

\* How far the start of a job has come.
StartOrder(j) ==
    /\ starter[j] \in {"no", "called", "spawn"} => worker[j] = "no"
    /\ starter[j] \in {"no", "called"} => rec[j].status = "none"
    /\ starter[j] \in {"spawn", "register"} => rec[j].status # "none"
    /\ starter[j] = "register" => worker[j] # "no"
    /\ starter[j] = "over" /\ rec[j].status # "none" => rec[j].workerPid
    /\ worker[j] # "no" => rec[j].status # "none"
    /\ rec[j].workerPid => worker[j] # "no"
    /\ worker[j] \in {"no", "load", "popen"} => command[j] = "no"

\* Nothing times out before the deadline.
InTime(j) == late[j] \/ rec[j].timeout \/ j \in cut => expired[j]

\* Before the deadline, nobody but its worker, or a request to cancel it, ends
\* a job that has been started; ...
WorkerEnds(j) ==
    (starter[j] = "spawn" \/ Working(j)) /\ ~expired[j] /\ ~rec[j].cancel => Active(j)

\* ... its worker does; ...
WorkerSettles(j) == worker[j] = "gone" /\ ~expired[j] => Terminal(j)

\* ... and takes its command along.
NoOrphan(j) == worker[j] = "gone" /\ Running(j) => j \in cut

\* It writes what the command said.
Completes(j) ==
    command[j] = "ok" /\ worker[j] = "gone" /\ ~expired[j] /\ ~rec[j].cancel
        => rec[j].status = "completed"

JobInv(j) == /\ StartOrder(j) /\ InTime(j) /\ WorkerEnds(j) /\ WorkerSettles(j)
             /\ NoOrphan(j) /\ Completes(j)

\* A thread that is going to write has something to write.
HasVerdict == \A c \in Threads : client[c].pc = "settle" => client[c].verdict # "none"

\* What a thread has concluded from an old copy of the record is still true.
ThreadInv(c) ==
    LET x == client[c]
        j == client[c].job
    IN  /\ x.workerPid => worker[j] # "no"
        /\ x.pc = "kill" => rec[j].cancel
        /\ x.pc = "judge" => x.workerPid \/ expired[j] \/ rec[j].cancel
        /\ x.pc = "settle" => x.verdict \in {"dying", "timeout", "gone"}
        /\ x.pc = "settle" /\ x.verdict \in {"dying", "timeout"} => expired[j]
        /\ x.pc = "settle" /\ x.verdict = "gone" => worker[j] = "gone" \/ rec[j].cancel

FaultFree == faults = 0 => /\ \A j \in Jobs : JobInv(j)
                           /\ \A c \in Threads : ThreadInv(c)

\* Handled means shown, and nothing is under way to the model while it waits.
Receipts == /\ \A j \in Jobs : rec[j].handled => j \in shown
            /\ main = "settle" => delivered = {}

IInv == TypeOK /\ HasVerdict /\ FaultFree /\ Receipts
-----------------------------------------------------------------------------
LEMMA RestingType == Resting \in ClientState
  BY JobsAssumption DEF Resting, ClientState

(* What the values a step writes look like.                                *)
LEMMA LookType ==
    ASSUME TypeOK, NEW c \in Threads, NEW j \in Jobs
    PROVE  /\ Look(c, j) \in ClientState
           /\ [Look(c, j) EXCEPT !.pc = "kill"] \in ClientState
  BY RestingType DEF TypeOK, Look, ClientState, Record

LEMMA UpdatedType ==
    \A r \in Record, s \in ActiveStatus \cup TerminalStatus :
        /\ [r EXCEPT !.status = s] \in Record
        /\ [r EXCEPT !.status = s, !.timeout = TRUE] \in Record
        /\ [r EXCEPT !.status = s, !.cancel = TRUE] \in Record
        /\ [r EXCEPT !.pid = TRUE, !.status = s] \in Record
        /\ [r EXCEPT !.workerPid = TRUE] \in Record
        /\ [r EXCEPT !.handled = TRUE] \in Record
  BY DEF Record

LEMMA SettledType ==
    ASSUME TypeOK, NEW j \in Jobs, NEW r \in Record
    PROVE  Settled(j, r) \in [Jobs -> Record]
  BY DEF TypeOK, Settled

LEMMA FinishedType ==
    ASSUME TypeOK, NEW j \in Jobs, NEW error \in BOOLEAN, NEW timedOut \in BOOLEAN
    PROVE  Finished(j, error, timedOut) \in [Jobs -> Record]
  <1>1. \A status \in TerminalStatus : [rec[j] EXCEPT !.status = status] \in Record
    BY UpdatedType DEF TypeOK
  <1> QED BY <1>1, SettledType DEF Finished, TerminalStatus

LEMMA VerdictType ==
    ASSUME TypeOK, NEW j \in Jobs,
           NEW verdict \in {"dying", "timeout", "unclear", "gone"}
    PROVE  Verdict(j, verdict) \in Record
  <1>1. rec[j] \in Record /\ {"failed", "cancelled", "interrupted", "cancelling"}
                                \subseteq ActiveStatus \cup TerminalStatus
    BY DEF TypeOK, ActiveStatus, TerminalStatus
  <1> QED BY <1>1, UpdatedType DEF Verdict

LEMMA KilledType ==
    ASSUME TypeOK, NEW j \in Jobs
    PROVE  Killed(j) \in [Jobs -> {"no", "running", "ok", "error", "killed"}]
  BY DEF TypeOK, Killed

LEMMA DeadType ==
    ASSUME TypeOK, NEW j \in Jobs
    PROVE  Dead(j) \in [Jobs -> {"no", "load", "popen", "launched", "mark", "poll", "gone"}]
  BY DEF TypeOK, Dead
-----------------------------------------------------------------------------
LEMMA TypeInit == Init => TypeOK
  BY RestingType, JobsAssumption DEF Init, TypeOK, NoRecord, Record, ClientState

(* What Judge concludes, and what it leaves alone.                         *)
LEMMA JudgeOutcome ==
    ASSUME NEW c, Judge(c)
    PROVE  /\ \/ client' = [client EXCEPT ![c] = Resting]
              \/ \E v \in {"dying", "timeout", "unclear", "gone"} :
                    client' = [client EXCEPT ![c].pc = "settle", ![c].verdict = v]
           /\ UNCHANGED <<rec, starter, late, expired, main, delivered, toCancel,
                          requests, shown>>
  BY DEF Judge, mainVars

(* Every step keeps the types.                                             *)
LEMMA TypeStep ==
    ASSUME TypeOK, HasVerdict, [Next]_vars
    PROVE  TypeOK'
  <1> USE DEF TypeOK, procVars, mainVars
  <1>1. ASSUME NEW j \in Jobs, Prepare(j)
        PROVE  TypeOK'
    <2>1. [rec EXCEPT ![j].status = "starting"] \in [Jobs -> Record]
      BY UpdatedType DEF ActiveStatus
    <2> QED BY <1>1, <2>1 DEF Prepare
  <1>2. ASSUME NEW j \in Jobs, Call(j) \/ SpawnWorker(j)
        PROVE  TypeOK'
    BY <1>2 DEF Call, SpawnWorker
  <1>3. ASSUME NEW j \in Jobs, RegisterWorker(j)
        PROVE  TypeOK'
    <2>1. [rec EXCEPT ![j].workerPid = TRUE] \in [Jobs -> Record]
      BY UpdatedType DEF ActiveStatus
    <2> QED BY <1>3, <2>1 DEF RegisterWorker
  <1>4. ASSUME NEW j \in Jobs, StartFails(j)
        PROVE  TypeOK'
    <2>1. [rec[j] EXCEPT !.status = "failed"] \in Record
      BY UpdatedType DEF TerminalStatus
    <2>2. rec' \in [Jobs -> Record]
      BY <1>4, <2>1, SettledType DEF StartFails
    <2>3. faults' \in 0..MaxFaults
      BY <1>4, JobsAssumption DEF StartFails
    <2> QED BY <1>4, <2>2, <2>3, DeadType DEF StartFails
  <1>5. ASSUME NEW j \in Jobs, WorkerLoad(j) \/ WorkerPopen(j) \/ WorkerLaunched(j)
                               \/ WorkerPoll(j) \/ WorkerFinish(j)
        PROVE  TypeOK'
    <2>1. CASE WorkerLoad(j)
      BY ZenonT(60), <2>1, FinishedType, DeadType DEF WorkerLoad
    <2>2. CASE WorkerPopen(j)
      BY <2>2 DEF WorkerPopen
    <2>5. CASE WorkerPoll(j)
      BY <2>5, KilledType DEF WorkerPoll
    <2>3. CASE WorkerLaunched(j)
      BY ZenonT(60), <2>3, FinishedType, KilledType, DeadType DEF WorkerLaunched
    <2>4. CASE WorkerFinish(j)
      BY <2>4, FinishedType, DeadType DEF WorkerFinish
    <2> QED BY <1>5, <2>1, <2>2, <2>3, <2>4, <2>5
  <1>6. ASSUME NEW j \in Jobs, WorkerMark(j)
        PROVE  TypeOK'
    <2>1. \A s \in {"cancelling", "running"} :
             [rec EXCEPT ![j].pid = TRUE, ![j].status = s] \in [Jobs -> Record]
      BY UpdatedType DEF ActiveStatus
    <2> QED BY ZenonT(60), <1>6, <2>1, KilledType, DeadType DEF WorkerMark
  <1>7. ASSUME NEW j \in Jobs, WorkerRaises(j) \/ WorkerCrash(j)
        PROVE  TypeOK'
    <2>1. faults < MaxFaults /\ faults' = faults + 1
      BY <1>7 DEF WorkerRaises, WorkerCrash
    <2>2. faults' \in 0..MaxFaults
      BY <2>1, JobsAssumption
    <2>3. CASE WorkerRaises(j)
      BY <2>2, <2>3, FinishedType, KilledType, DeadType DEF WorkerRaises
    <2>4. CASE WorkerCrash(j)
      BY <2>2, <2>4, DeadType DEF WorkerCrash
    <2> QED BY <1>7, <2>3, <2>4
  <1>8. ASSUME NEW j \in Jobs, CommandEnds(j) \/ Expire(j)
        PROVE  TypeOK'
    <2>1. CASE CommandEnds(j)
      <3>1. command' \in [Jobs -> {"no", "running", "ok", "error", "killed"}]
        BY <2>1 DEF CommandEnds
      <3> QED BY <2>1, <3>1 DEF CommandEnds
    <2>2. CASE Expire(j)
      <3>1. expired' \in [Jobs -> BOOLEAN]
        BY <2>2 DEF Expire
      <3> QED BY <2>2, <3>1 DEF Expire
    <2> QED BY <1>8, <2>1, <2>2
  <1>9. ASSUME NEW c \in Threads, NEW j \in Jobs, Query(c, j)
        PROVE  TypeOK'
    BY <1>9, LookType DEF Query, ClientState
  <1>10. ASSUME NEW c \in Threads, NEW j \in Jobs, RequestCancel(c, j)
         PROVE  TypeOK'
    <2>1. [rec EXCEPT ![j].status = "cancelling", ![j].cancel = TRUE] \in [Jobs -> Record]
      BY UpdatedType DEF ActiveStatus
    <2> QED BY <1>10, <2>1, LookType DEF RequestCancel, ClientState
  <1>11. ASSUME NEW c \in Threads, Judge(c)
         PROVE  TypeOK'
    <2>1. client[c].job \in Jobs
      BY DEF Threads
    <2>2. faults' \in 0..MaxFaults
      BY <1>11, JobsAssumption DEF Judge
    <2>3. /\ command' \in [Jobs -> {"no", "running", "ok", "error", "killed"}]
          /\ worker' \in [Jobs -> {"no", "load", "popen", "launched", "mark", "poll", "gone"}]
          /\ cut' \in SUBSET Jobs
      BY <1>11, <2>1, KilledType, DeadType DEF Judge
    <2>4. client' \in [Threads -> ClientState]
      <3> HIDE DEF TypeOK
      <3>0. client \in [Threads -> ClientState]
        BY DEF TypeOK, ClientState
      <3>1. \A v \in {"dying", "timeout", "unclear", "gone"} :
               [client EXCEPT ![c].pc = "settle", ![c].verdict = v] \in [Threads -> ClientState]
        BY <3>0 DEF ClientState
      <3>2. [client EXCEPT ![c] = Resting] \in [Threads -> ClientState]
        BY <3>0, RestingType
      <3>3. \/ client' = [client EXCEPT ![c] = Resting]
            \/ \E v \in {"dying", "timeout", "unclear", "gone"} :
                  client' = [client EXCEPT ![c].pc = "settle", ![c].verdict = v]
        BY <1>11, JudgeOutcome
      <3> QED BY ZenonT(60), <3>1, <3>2, <3>3
    <2>5. UNCHANGED <<rec, starter, late, expired, main, delivered, toCancel, requests, shown>>
      BY <1>11, JudgeOutcome
    <2> QED BY <2>2, <2>3, <2>4, <2>5 DEF ClientState
  <1>12. ASSUME NEW c \in Threads, Settle(c)
         PROVE  TypeOK'
    <2>1. client[c].job \in Jobs
      OBVIOUS
    <2>3. client[c].verdict \in {"dying", "timeout", "unclear", "gone"}
      BY <1>12 DEF Settle, HasVerdict
    <2>2. rec' \in [Jobs -> Record]
      BY <1>12, <2>1, <2>3, VerdictType, SettledType DEF Settle
    <2> QED BY <1>12, <2>2, RestingType DEF Settle, ClientState
  <1>13. ASSUME NEW c \in Threads, CancelKill(c)
         PROVE  TypeOK'
    <2>1. client[c].job \in Jobs
      OBVIOUS
    <2>2. faults' \in 0..MaxFaults
      BY <1>13, JobsAssumption DEF CancelKill
    <2>3. command' \in [Jobs -> {"no", "running", "ok", "error", "killed"}]
      BY <1>13, <2>1, KilledType DEF CancelKill
    <2>4. client' \in [Threads -> ClientState]
      BY <1>13, <2>1, LookType, RestingType DEF CancelKill, ClientState
    <2> QED BY <1>13, <2>2, <2>3, <2>4 DEF CancelKill, ClientState
  <1>14. CASE SendRequest \/ SettleShell
    <2>1. delivered' \in SUBSET Jobs
      BY <1>14 DEF SendRequest, SettleShell, Take, Ready
    <2>2. requests' \in 0..MaxRequests
      BY <1>14, JobsAssumption DEF SendRequest, SettleShell
    <2> QED BY <1>14, <2>1, <2>2 DEF SendRequest, SettleShell
  <1>15. CASE Accepted
    <2>1. rec' \in [Jobs -> Record]
      BY <1>15, UpdatedType DEF Accepted, ActiveStatus
    <2> QED BY <1>15, <2>1 DEF Accepted
  <1>16. CASE RequestFails \/ BatchEnds \/ CancelWait \/ CancelDone
    BY <1>16, JobsAssumption DEF RequestFails, BatchEnds, CancelWait, CancelDone, Pending
  <1>17. ASSUME NEW j \in Jobs, SkipOver(j)
         PROVE  TypeOK'
    BY <1>17 DEF SkipOver
  <1>18. CASE HostCrash
    <2>1. faults' \in 0..MaxFaults
      BY <1>18, JobsAssumption DEF HostCrash
    <2> QED BY <1>18, <2>1, RestingType DEF HostCrash, ClientState
  <1>19. CASE UNCHANGED vars
    BY <1>19 DEF vars
  <1> HIDE DEF TypeOK, procVars, mainVars
  <1> QED
    BY <1>1, <1>2, <1>3, <1>4, <1>5, <1>6, <1>7, <1>8, <1>9, <1>10, <1>11, <1>12,
       <1>13, <1>14, <1>15, <1>16, <1>17, <1>18, <1>19
    DEF Next, StarterStep, WorkerStep, ClientStep, MainStep, Threads

LEMMA VerdictStep ==
    ASSUME TypeOK, HasVerdict, [Next]_vars
    PROVE  HasVerdict'
  <1> SUFFICES ASSUME NEW c \in Threads, client'[c].pc = "settle"
               PROVE  client'[c].verdict # "none"
    BY DEF HasVerdict
  <1> USE DEF HasVerdict
  <1>0. Resting.pc = "idle" /\ client \in [Threads -> ClientState]
    BY DEF Resting, TypeOK, ClientState
  <1>1. CASE client' = client
    BY <1>1
  <1>2. ASSUME NEW d \in Threads, NEW j \in Jobs,
               Query(d, j) \/ RequestCancel(d, j)
        PROVE  client'[c].verdict # "none"
    BY ZenonT(60), <1>0, <1>2, RestingType DEF Query, RequestCancel, Look, ClientState
  <1>3. ASSUME NEW d \in Threads, Judge(d) \/ Settle(d) \/ CancelKill(d)
        PROVE  client'[c].verdict # "none"
    <2>1. CASE Judge(d)
      <3>1. \/ client' = [client EXCEPT ![d] = Resting]
            \/ \E v \in {"dying", "timeout", "unclear", "gone"} :
                  client' = [client EXCEPT ![d].pc = "settle", ![d].verdict = v]
        BY <2>1, JudgeOutcome
      <3> QED BY <1>0, <3>1, RestingType DEF ClientState
    <2>2. CASE Settle(d)
      BY <1>0, <2>2, RestingType DEF Settle, ClientState
    <2>3. CASE CancelKill(d)
      BY <1>0, <2>3, RestingType DEF CancelKill, Look, ClientState
    <2> QED BY <1>3, <2>1, <2>2, <2>3
  <1>4. CASE HostCrash
    BY <1>0, <1>4 DEF HostCrash
  <1> QED
    <2>1. CASE UNCHANGED vars
      BY <1>1, <2>1 DEF vars
    <2>2. ASSUME NEW j \in Jobs, Call(j) \/ StarterStep(j) \/ StartFails(j)
                    \/ WorkerStep(j) \/ WorkerRaises(j) \/ WorkerCrash(j)
                    \/ CommandEnds(j) \/ Expire(j) \/ SkipOver(j)
          PROVE  client' = client
      BY <2>2 DEF Call, StarterStep, Prepare, SpawnWorker, RegisterWorker, StartFails,
         WorkerStep, WorkerLoad, WorkerPopen, WorkerLaunched, WorkerMark, WorkerPoll,
         WorkerFinish, WorkerRaises, WorkerCrash, CommandEnds, Expire, SkipOver
    <2>3. CASE SendRequest \/ Accepted \/ RequestFails \/ BatchEnds \/ CancelWait
               \/ SettleShell \/ CancelDone
      BY <1>1, <2>3 DEF SendRequest, Accepted, RequestFails, BatchEnds, CancelWait,
         SettleShell, CancelDone
    <2> HIDE DEF HasVerdict
    <2> QED
      BY <1>1, <1>2, <1>3, <1>4, <2>1, <2>2, <2>3 DEF Next, ClientStep, MainStep, Threads
-----------------------------------------------------------------------------
(* What the worker writes at its end, ...                                  *)
FinishedWrites(j, error, timedOut, f) ==
    /\ \A k \in Jobs : k # j => f[k] = rec[k]
    /\ f[j].workerPid = rec[j].workerPid
    /\ f[j].cancel = rec[j].cancel
    /\ f[j].timeout = rec[j].timeout
    /\ ~Active(j) => f[j] = rec[j]
    /\ Active(j) => f[j].status \in TerminalStatus
    /\ Active(j) /\ command[j] = "ok" /\ ~error /\ ~timedOut /\ ~rec[j].timeout
          /\ ~rec[j].cancel => f[j].status = "completed"

LEMMA FinishedFacts ==
    ASSUME TypeOK, NEW j \in Jobs, NEW error \in BOOLEAN, NEW timedOut \in BOOLEAN
    PROVE  FinishedWrites(j, error, timedOut, Finished(j, error, timedOut))
  <1> DEFINE f == Finished(j, error, timedOut)
  <1>1. rec \in [Jobs -> Record] /\ rec[j] \in Record
    BY DEF TypeOK
  <1>2. PICK s : /\ f = Settled(j, [rec[j] EXCEPT !.status = s])
                 /\ s \in TerminalStatus
                 /\ command[j] = "ok" /\ ~error /\ ~timedOut /\ ~rec[j].timeout
                       /\ ~rec[j].cancel => s = "completed"
    BY <1>1 DEF Finished, TerminalStatus, Record
  <1> HIDE DEF f
  <1>3. FinishedWrites(j, error, timedOut, f)
    BY <1>1, <1>2 DEF Settled, Record, FinishedWrites
  <1> QED BY <1>3 DEF f

(* ... and a thread that has judged its processes.                         *)
LEMMA VerdictFacts ==
    ASSUME TypeOK, NEW j \in Jobs, NEW v \in {"dying", "timeout", "gone"},
           NEW f, f = Settled(j, Verdict(j, v))
    PROVE  /\ \A k \in Jobs : k # j => f[k] = rec[k]
           /\ f[j].workerPid = rec[j].workerPid
           /\ f[j].cancel = rec[j].cancel
           /\ f[j].timeout => rec[j].timeout \/ v \in {"dying", "timeout"}
           /\ ~Active(j) => f[j] = rec[j]
           /\ Active(j) => f[j].status # "none"
  <1>1. rec \in [Jobs -> Record] /\ rec[j] \in Record
    BY DEF TypeOK
  <1>2. CASE v = "dying"
    BY <1>1, <1>2 DEF Verdict, Settled, Record
  <1>3. CASE v = "timeout"
    BY <1>1, <1>3 DEF Verdict, Settled, Record
  <1>4. CASE v = "gone"
    BY <1>1, <1>4 DEF Verdict, Settled, Record
  <1> QED BY <1>2, <1>3, <1>4

(* A step that leaves a job alone keeps what is known about it.            *)
LEMMA JobFrame ==
    ASSUME NEW k \in Jobs, JobInv(k),
           rec'[k] = rec[k], starter'[k] = starter[k], worker'[k] = worker[k],
           command'[k] = command[k], late'[k] = late[k], expired'[k] = expired[k],
           k \in cut' <=> k \in cut
    PROVE  JobInv(k)'
  BY DEF JobInv, StartOrder, InTime, WorkerEnds, WorkerSettles, NoOrphan, Completes,
     Active, Terminal, Working, Running

(* A fault is never taken back.                                            *)
LEMMA FaultStays ==
    ASSUME TypeOK, [Next]_vars, faults' = 0
    PROVE  faults = 0
  <1>1. faults' \in {faults, faults + 1}
    BY DEF Next, StarterStep, WorkerStep, ClientStep, MainStep, Call, Prepare, SpawnWorker,
       RegisterWorker, StartFails, WorkerLoad, WorkerPopen, WorkerLaunched, WorkerMark,
       WorkerPoll, WorkerFinish, WorkerRaises, WorkerCrash, CommandEnds, Expire, Query,
       RequestCancel, Judge, Settle, CancelKill, SendRequest, Accepted, RequestFails,
       BatchEnds, SettleShell, CancelWait, SkipOver, CancelDone, HostCrash, vars
  <1> QED BY <1>1, JobsAssumption DEF TypeOK

(* Every step keeps what is known about each job.                          *)
LEMMA JobStep ==
    ASSUME IInv, [Next]_vars, faults' = 0, NEW k \in Jobs
    PROVE  JobInv(k)'
  <1>0. faults = 0 /\ TypeOK /\ JobInv(k) /\ \A c \in Threads : ThreadInv(c)
    BY FaultStays DEF IInv, FaultFree
  <1>s. rec[k].status \in {"none"} \cup ActiveStatus \cup TerminalStatus
    BY <1>0 DEF TypeOK, Record
  <1> USE <1>0 DEF TypeOK, procVars, mainVars, StartOrder, InTime, WorkerEnds, WorkerSettles, NoOrphan, Completes, Active, Terminal, Working, Running, ActiveStatus, TerminalStatus
  <1>1. ASSUME NEW j \in Jobs, Call(j)
        PROVE  JobInv(k)'
    <2>1. CASE k # j
      BY <1>1, <2>1, JobFrame DEF Call
    <2>2. CASE k = j
      BY <1>1, <2>2 DEF Call, JobInv
    <2> QED BY <2>1, <2>2
  <1>2. ASSUME NEW j \in Jobs, Prepare(j)
        PROVE  JobInv(k)'
    <2>1. CASE k # j
      BY <1>2, <2>1, JobFrame DEF Prepare
    <2>2. CASE k = j
      <3>1. /\ rec'[k].workerPid = rec[k].workerPid /\ rec'[k].cancel = rec[k].cancel
            /\ rec'[k].timeout = rec[k].timeout
            /\ rec'[k].status = IF starter'[k] = "spawn" THEN "starting" ELSE rec[k].status
            /\ starter'[k] \in {"spawn", "over"}
        BY <1>2, <2>2 DEF Prepare, Record
      <3> QED BY <1>2, <2>2, <3>1 DEF Prepare, JobInv
    <2> QED BY <2>1, <2>2
  <1>3. ASSUME NEW j \in Jobs, SpawnWorker(j)
        PROVE  JobInv(k)'
    <2>1. CASE k # j
      BY <1>3, <2>1, JobFrame DEF SpawnWorker
    <2>2. CASE k = j
      BY <1>3, <2>2 DEF SpawnWorker, JobInv
    <2> QED BY <2>1, <2>2
  <1>4. ASSUME NEW j \in Jobs, RegisterWorker(j)
        PROVE  JobInv(k)'
    <2>1. CASE k # j
      BY <1>4, <2>1, JobFrame DEF RegisterWorker
    <2>2. CASE k = j
      BY <1>4, <2>2 DEF RegisterWorker, JobInv
    <2> QED BY <2>1, <2>2
  <1>5. ASSUME NEW j \in Jobs, WorkerPopen(j)
        PROVE  JobInv(k)'
    <2>1. CASE k # j
      BY <1>5, <2>1, JobFrame DEF WorkerPopen
    <2>2. CASE k = j
      BY <1>5, <2>2 DEF WorkerPopen, JobInv
    <2> QED BY <2>1, <2>2
  <1>6. ASSUME NEW j \in Jobs, CommandEnds(j)
        PROVE  JobInv(k)'
    <2>1. CASE k # j
      BY <1>6, <2>1, JobFrame DEF CommandEnds
    <2>2. CASE k = j
      BY <1>6, <2>2 DEF CommandEnds, JobInv
    <2> QED BY <2>1, <2>2
  <1>7. ASSUME NEW j \in Jobs, Expire(j)
        PROVE  JobInv(k)'
    <2>1. CASE k # j
      BY <1>7, <2>1, JobFrame DEF Expire
    <2>2. CASE k = j
      BY <1>7, <2>2 DEF Expire, JobInv
    <2> QED BY <2>1, <2>2
  <1>8. ASSUME NEW j \in Jobs, WorkerPoll(j)
        PROVE  JobInv(k)'
    <2>1. CASE k # j
      BY <1>8, <2>1, JobFrame DEF WorkerPoll, Killed
    <2>2. CASE k = j
      BY <1>8, <2>2 DEF WorkerPoll, JobInv, Killed
    <2> QED BY <2>1, <2>2
  <1>9. ASSUME NEW j \in Jobs, WorkerMark(j)
        PROVE  JobInv(k)'
    <2>1. CASE k # j
      BY <1>9, <2>1, JobFrame DEF WorkerMark, Killed, Dead
    <2>2. CASE k = j
      <3>1. /\ rec'[k].workerPid = rec[k].workerPid /\ rec'[k].cancel = rec[k].cancel
            /\ rec'[k].timeout = rec[k].timeout
            /\ rec'[k].status = IF ~Active(k) THEN rec[k].status
                                ELSE IF rec[k].cancel THEN "cancelling" ELSE "running"
        BY <1>9, <2>2 DEF WorkerMark, Record
      <3> QED BY <1>s, <1>9, <2>2, <3>1 DEF WorkerMark, JobInv, Killed, Dead
    <2> QED BY <2>1, <2>2
  <1>10. ASSUME NEW j \in Jobs, WorkerLoad(j)
        PROVE  JobInv(k)'
    <2>1. IF Terminal(j) \/ rec[j].cancel THEN FinishedWrites(j, FALSE, FALSE, rec') ELSE rec' = rec
      BY <1>10, FinishedFacts DEF WorkerLoad
    <2>2. CASE k # j
      BY <1>10, <2>1, <2>2, JobFrame DEF WorkerLoad, FinishedWrites, Dead
    <2>3. CASE k = j
      BY <1>s, <1>10, <2>1, <2>3 DEF WorkerLoad, FinishedWrites, JobInv, Dead
    <2> QED BY <2>2, <2>3
  <1>11. ASSUME NEW j \in Jobs, WorkerLaunched(j)
        PROVE  JobInv(k)'
    <2>1. IF expired[j] THEN FinishedWrites(j, TRUE, TRUE, rec') ELSE rec' = rec
      BY <1>11, FinishedFacts DEF WorkerLaunched
    <2>2. CASE k # j
      BY <1>11, <2>1, <2>2, JobFrame DEF WorkerLaunched, FinishedWrites, Dead, Killed
    <2>3. CASE k = j
      BY ZenonT(60), <1>11, <2>1, <2>3 DEF WorkerLaunched, FinishedWrites, JobInv, Dead, Killed
    <2> QED BY <2>2, <2>3
  <1>12. ASSUME NEW j \in Jobs, WorkerFinish(j)
        PROVE  JobInv(k)'
    <2>1. FinishedWrites(j, FALSE, late[j] \/ expired[j], rec')
      BY <1>12, FinishedFacts DEF WorkerFinish
    <2>2. CASE k # j
      BY <1>12, <2>1, <2>2, JobFrame DEF WorkerFinish, FinishedWrites, Dead
    <2>3. CASE k = j
      BY <1>s, <1>12, <2>1, <2>3 DEF WorkerFinish, FinishedWrites, JobInv, Dead
    <2> QED BY <2>2, <2>3
  <1>13. ASSUME NEW c \in Threads, NEW j \in Jobs, RequestCancel(c, j)
        PROVE  JobInv(k)'
    <2>1. CASE k # j
      BY <1>13, <2>1, JobFrame DEF RequestCancel
    <2>2. CASE k = j
      BY <1>13, <2>2 DEF RequestCancel, JobInv
    <2> QED BY <2>1, <2>2
  <1>14. ASSUME NEW c \in Threads, Settle(c)
        PROVE  JobInv(k)'
    <2> DEFINE j == client[c].job
    <2>0. /\ j \in Jobs /\ client[c].verdict \in {"dying", "timeout", "gone"}
          /\ client[c].verdict \in {"dying", "timeout"} => expired[j]
          /\ client[c].verdict = "gone" => worker[j] = "gone" \/ rec[j].cancel
      BY <1>14 DEF Settle, ThreadInv
    <2>1. rec' = Settled(j, Verdict(j, client[c].verdict))
      BY <1>14 DEF Settle
    <2>2. CASE k # j
      BY <1>14, <2>0, <2>1, <2>2, JobFrame, VerdictFacts DEF Settle
    <2>3. CASE k = j
      <3>1. /\ rec'[j].workerPid = rec[j].workerPid /\ rec'[j].cancel = rec[j].cancel
            /\ rec'[j].timeout => rec[j].timeout \/ expired[j]
            /\ ~Active(j) => rec'[j] = rec[j]
            /\ Active(j) => rec'[j].status # "none"
        BY <2>0, <2>1, VerdictFacts
      <3>2. UNCHANGED <<starter, worker, command, late, expired, faults, cut>>
        BY <1>14 DEF Settle, procVars
      <3> HIDE DEF j
      <3> QED BY <2>0, <2>3, <3>1, <3>2 DEF JobInv
    <2> QED BY <2>2, <2>3
  <1>15. ASSUME NEW c \in Threads, Judge(c)
        PROVE  JobInv(k)'
    <2> DEFINE j == client[c].job
    <2>0. j \in Jobs
      OBVIOUS
    <2>1. CASE k # j
      BY <1>15, <2>0, <2>1, JobFrame DEF Judge, Killed, Dead
    <2>2. CASE k = j
      BY <1>15, <2>0, <2>2 DEF Judge, Live, JobInv, Killed, Dead
    <2> QED BY <2>1, <2>2
  <1>16. ASSUME NEW c \in Threads, CancelKill(c)
        PROVE  JobInv(k)'
    <2>1. CASE k # client[c].job
      BY <1>16, <2>1, JobFrame DEF CancelKill, Killed
    <2>2. CASE k = client[c].job
      BY <1>16, <2>2 DEF CancelKill, JobInv, Killed
    <2> QED BY <2>1, <2>2
  <1>17. CASE Accepted
    <2>1. /\ rec'[k].status = rec[k].status /\ rec'[k].workerPid = rec[k].workerPid
          /\ rec'[k].cancel = rec[k].cancel /\ rec'[k].timeout = rec[k].timeout
      BY <1>17 DEF Accepted, Record
    <2> QED BY <1>17, <2>1 DEF Accepted, JobInv
  <1>18. ASSUME NEW c \in Threads, NEW j \in Jobs,
                Query(c, j) \/ SkipOver(j) \/ SendRequest \/ RequestFails \/ BatchEnds
                \/ SettleShell \/ CancelWait \/ CancelDone \/ UNCHANGED vars
         PROVE  JobInv(k)'
    BY <1>18, JobFrame DEF Query, SkipOver, SendRequest, RequestFails, BatchEnds,
       SettleShell, CancelWait, CancelDone, vars
  <1>19. ASSUME NEW j \in Jobs,
                StartFails(j) \/ WorkerRaises(j) \/ WorkerCrash(j) \/ HostCrash
         PROVE  FALSE
    BY <1>19, <1>0 DEF StartFails, WorkerRaises, WorkerCrash, HostCrash
  <1> HIDE <1>0 DEF TypeOK, procVars, mainVars, StartOrder, InTime, WorkerEnds, WorkerSettles, NoOrphan, Completes, Active, Terminal, Working, Running, ActiveStatus, TerminalStatus
  <1> QED
    BY <1>1, <1>2, <1>3, <1>4, <1>5, <1>6, <1>7, <1>8, <1>9, <1>10, <1>11, <1>12, <1>13, <1>14, <1>15, <1>16, <1>17, <1>18, <1>19
    DEF Next, StarterStep, WorkerStep, ClientStep, MainStep, Threads
-----------------------------------------------------------------------------
(* What the threads rely on is never taken back.                           *)
Lasting(k) ==
    /\ worker[k] # "no" => worker'[k] # "no"
    /\ worker[k] = "gone" => worker'[k] = "gone"
    /\ rec[k].cancel => rec'[k].cancel
    /\ expired[k] => expired'[k]

LEMMA LastingStep ==
    ASSUME IInv, [Next]_vars, faults' = 0, NEW k \in Jobs
    PROVE  Lasting(k)
  <1>0. faults = 0 /\ TypeOK /\ \A c \in Threads : ThreadInv(c)
    BY FaultStays DEF IInv, FaultFree
  <1>j. JobInv(k)
    BY FaultStays DEF IInv, FaultFree
  <1> USE <1>0 DEF TypeOK, procVars, mainVars, Lasting
  <1>1. ASSUME NEW j \in Jobs,
               Call(j) \/ SpawnWorker(j) \/ WorkerPopen(j) \/ WorkerPoll(j)
               \/ CommandEnds(j) \/ Expire(j) \/ SkipOver(j)
        PROVE  Lasting(k)
    <2>1. CASE Call(j) \/ CommandEnds(j) \/ SkipOver(j)
      BY <2>1 DEF Call, CommandEnds, SkipOver
    <2>2. CASE WorkerPoll(j) \/ Expire(j)
      BY <2>2 DEF WorkerPoll, Expire
    <2>3. CASE SpawnWorker(j)
      BY <2>3, <1>j DEF SpawnWorker, JobInv, StartOrder
    <2>4. CASE WorkerPopen(j)
      BY <2>4 DEF WorkerPopen
    <2> QED BY <1>1, <2>1, <2>2, <2>3, <2>4
  <1>2. ASSUME NEW j \in Jobs, Prepare(j) \/ RegisterWorker(j)
        PROVE  Lasting(k)
    <2>1. rec'[k].cancel = rec[k].cancel
      <3>1. CASE k = j
        BY <1>2, <3>1 DEF Prepare, RegisterWorker, Record
      <3>2. CASE k # j
        BY <1>2, <3>2 DEF Prepare, RegisterWorker
      <3> QED BY <3>1, <3>2
    <2>2. worker' = worker /\ expired' = expired
      BY <1>2 DEF Prepare, RegisterWorker
    <2> QED BY <2>1, <2>2
  <1>3. ASSUME NEW j \in Jobs, WorkerMark(j)
        PROVE  Lasting(k)
    <2>1. CASE k = j
      <3>1. rec'[k].cancel = rec[k].cancel
        BY <1>3, <2>1 DEF WorkerMark, Record
      <3> QED BY <1>3, <2>1, <3>1 DEF WorkerMark, Dead
    <2>2. CASE k # j
      BY <1>3, <2>2 DEF WorkerMark, Dead
    <2> QED BY <2>1, <2>2
  <1>4. ASSUME NEW j \in Jobs, WorkerLoad(j) \/ WorkerLaunched(j) \/ WorkerFinish(j)
        PROVE  Lasting(k)
    <2>1. \/ rec' = rec
          \/ \E e, t \in BOOLEAN : FinishedWrites(j, e, t, rec')
      BY <1>4, FinishedFacts DEF WorkerLoad, WorkerLaunched, WorkerFinish
    <2>2. rec'[k].cancel = rec[k].cancel
      BY <2>1 DEF FinishedWrites
    <2> QED BY <1>4, <2>2 DEF WorkerLoad, WorkerLaunched, WorkerFinish, Dead
  <1>5. ASSUME NEW c \in Threads, NEW j \in Jobs, RequestCancel(c, j)
        PROVE  Lasting(k)
    BY <1>5 DEF RequestCancel, Record
  <1>6. ASSUME NEW c \in Threads, Judge(c)
        PROVE  Lasting(k)
    BY <1>6 DEF Judge, Dead
  <1>7. ASSUME NEW c \in Threads, Settle(c)
        PROVE  Lasting(k)
    <2>1. client[c].job \in Jobs /\ client[c].verdict \in {"dying", "timeout", "gone"}
      BY <1>7 DEF Settle, ThreadInv
    <2>2. rec' = Settled(client[c].job, Verdict(client[c].job, client[c].verdict))
      BY <1>7 DEF Settle
    <2>3. rec'[k].cancel = rec[k].cancel
      BY <2>1, <2>2, VerdictFacts
    <2> QED BY <1>7, <2>3 DEF Settle
  <1>8. CASE Accepted
    BY <1>8 DEF Accepted, Record
  <1>9. ASSUME NEW c \in Threads, NEW j \in Jobs,
               Query(c, j) \/ CancelKill(c) \/ SendRequest \/ RequestFails \/ BatchEnds
               \/ SettleShell \/ CancelWait \/ CancelDone \/ UNCHANGED vars
        PROVE  Lasting(k)
    BY <1>9 DEF Query, CancelKill, SendRequest, RequestFails, BatchEnds, SettleShell,
       CancelWait, CancelDone, vars
  <1>10. ASSUME NEW j \in Jobs,
                StartFails(j) \/ WorkerRaises(j) \/ WorkerCrash(j) \/ HostCrash
         PROVE  FALSE
    BY <1>10 DEF StartFails, WorkerRaises, WorkerCrash, HostCrash
  <1> HIDE <1>0 DEF TypeOK, procVars, mainVars, Lasting
  <1> QED
    BY <1>1, <1>2, <1>3, <1>4, <1>5, <1>6, <1>7, <1>8, <1>9, <1>10, JobsAssumption
    DEF Next, StarterStep, WorkerStep, ClientStep, MainStep, Threads

(* A thread that rests or goes on as it was keeps what it has concluded.   *)
LEMMA ThreadFrame ==
    ASSUME IInv, [Next]_vars, faults' = 0, NEW c \in Threads, client'[c] = client[c]
    PROVE  ThreadInv(c)'
  <1>1. ThreadInv(c) /\ client[c].job \in Jobs
    BY FaultStays DEF IInv, FaultFree, TypeOK
  <1>2. Lasting(client[c].job)
    BY <1>1, LastingStep
  <1> QED BY <1>1, <1>2 DEF ThreadInv, Lasting

LEMMA ThreadStep ==
    ASSUME IInv, [Next]_vars, faults' = 0, NEW c \in Threads
    PROVE  ThreadInv(c)'
  <1>0. /\ faults = 0 /\ TypeOK /\ ThreadInv(c)
        /\ client \in [Threads -> ClientState]
        /\ \A j \in Jobs : StartOrder(j)
    BY FaultStays DEF IInv, FaultFree, JobInv, TypeOK, ClientState
  <1>1. CASE client'[c] = client[c]
    BY <1>1, ThreadFrame
  <1>2. CASE client'[c] = Resting
    BY <1>2 DEF ThreadInv, Resting
  <1>3. ASSUME NEW d \in Threads, NEW j \in Jobs, Query(d, j)
        PROVE  ThreadInv(c)'
    <2>1. CASE c = d
      <3>1. client'[c] = Look(c, j)
        BY <1>0, <1>3, <2>1 DEF Query, ClientState, Look
      <3>2. /\ client'[c].pc = "judge" /\ client'[c].job = j
            /\ client'[c].workerPid = rec[j].workerPid
        BY <3>1 DEF Look, Resting
      <3>3. rec[j].workerPid => worker[j] # "no"
        BY <1>0 DEF StartOrder
      <3>4. rec[j].workerPid \/ expired[j]
        BY <1>0, <1>3 DEF Query, StartOrder, Active, ActiveStatus
      <3> QED BY <1>3, <3>2, <3>3, <3>4 DEF Query, ThreadInv, procVars
    <2>2. CASE c # d
      BY <1>0, <1>1, <1>3, <2>2 DEF Query
    <2> QED BY <2>1, <2>2
  <1>4. ASSUME NEW d \in Threads, NEW j \in Jobs, RequestCancel(d, j)
        PROVE  ThreadInv(c)'
    <2>1. CASE c = d
      <3>2. /\ client'[c].pc = "kill" /\ client'[c].job = j
            /\ client'[c].workerPid = rec[j].workerPid
        BY <1>0, <1>4, <2>1 DEF RequestCancel, ClientState, Look, Resting
      <3>3. rec[j].workerPid => worker[j] # "no"
        BY <1>0 DEF StartOrder
      <3>4. rec'[j].cancel
        BY <1>0, <1>4 DEF RequestCancel, TypeOK, Record
      <3> QED BY <1>4, <3>2, <3>3, <3>4 DEF RequestCancel, ThreadInv, procVars
    <2>2. CASE c # d
      BY <1>0, <1>1, <1>4, <2>2 DEF RequestCancel
    <2> QED BY <2>1, <2>2
  <1>5. ASSUME NEW d \in Threads, Judge(d)
        PROVE  ThreadInv(c)'
    <2>1. CASE c = d
      <3> DEFINE x == client[c]
                 j == client[c].job
      <3>1. j \in Jobs /\ Lasting(j)
        BY <1>0, LastingStep DEF ClientState
      <3>2. CASE expired[j]
        <4>1. PICK v \in {"dying", "timeout"} :
                 client' = [client EXCEPT ![c].pc = "settle", ![c].verdict = v]
          BY <1>5, <2>1, <3>2 DEF Judge
        <4>2. /\ client'[c].pc = "settle" /\ client'[c].job = j
              /\ client'[c].verdict = v /\ client'[c].workerPid = x.workerPid
          BY <1>0, <4>1 DEF ClientState
        <4> QED BY <1>0, <3>1, <3>2, <4>2 DEF ThreadInv, Lasting
      <3>3. CASE ~expired[j]
        <4>1. \/ client'[c] = Resting
              \/ /\ client' = [client EXCEPT ![c].pc = "settle", ![c].verdict = "gone"]
                 /\ Live(x) = {} /\ x.pc = "judge"
          BY <1>0, <1>5, <2>1, <3>3 DEF Judge, ClientState, TypeOK
        <4>2. CASE client' = [client EXCEPT ![c].pc = "settle", ![c].verdict = "gone"]
                   /\ Live(x) = {} /\ x.pc = "judge"
          <5>1. /\ client'[c].pc = "settle" /\ client'[c].job = j
                /\ client'[c].verdict = "gone" /\ client'[c].workerPid = x.workerPid
            BY <1>0, <4>2 DEF ClientState
          <5>2. x.workerPid => ~Working(j)
            BY <4>2 DEF Live
          <5>3. worker[j] = "gone" \/ rec[j].cancel
            BY <1>0, <3>3, <4>2, <5>2 DEF ThreadInv, Working
          <5> QED BY <1>0, <3>1, <5>1, <5>3 DEF ThreadInv, Lasting
        <4> QED BY <1>2, <4>1, <4>2
      <3> QED BY <3>2, <3>3
    <2>2. CASE c # d
      BY <1>0, <1>1, <1>5, <2>2, JudgeOutcome
    <2> QED BY <2>1, <2>2
  <1>6. ASSUME NEW d \in Threads, Settle(d)
        PROVE  ThreadInv(c)'
    BY <1>0, <1>1, <1>2, <1>6 DEF Settle
  <1>7. ASSUME NEW d \in Threads, CancelKill(d)
        PROVE  ThreadInv(c)'
    <2>1. CASE c = d
      <3> DEFINE j == client[c].job
      <3>1. j \in Jobs /\ Lasting(j) /\ rec[j].cancel
        BY <1>0, <1>7, <2>1, LastingStep DEF ClientState, CancelKill, ThreadInv
      <3>2. client'[c] = Resting \/ client'[c] = Look(c, j)
        BY <1>0, <1>7, <2>1 DEF CancelKill
      <3>3. CASE client'[c] = Look(c, j)
        <4>1. /\ client'[c].pc = "judge" /\ client'[c].job = j
              /\ client'[c].workerPid = rec[j].workerPid
          BY <3>3 DEF Look, Resting
        <4>2. rec[j].workerPid => worker[j] # "no"
          BY <1>0, <3>1 DEF StartOrder
        <4> QED BY <3>1, <4>1, <4>2 DEF ThreadInv, Lasting
      <3> QED BY <1>2, <3>2, <3>3
    <2>2. CASE c # d
      BY <1>0, <1>1, <1>7, <2>2 DEF CancelKill
    <2> QED BY <2>1, <2>2
  <1>8. ASSUME NEW j \in Jobs, Call(j) \/ StarterStep(j) \/ StartFails(j)
                  \/ WorkerStep(j) \/ WorkerRaises(j) \/ WorkerCrash(j)
                  \/ CommandEnds(j) \/ Expire(j) \/ SkipOver(j)
        PROVE  client' = client
    BY <1>8 DEF Call, StarterStep, Prepare, SpawnWorker, RegisterWorker, StartFails,
       WorkerStep, WorkerLoad, WorkerPopen, WorkerLaunched, WorkerMark, WorkerPoll,
       WorkerFinish, WorkerRaises, WorkerCrash, CommandEnds, Expire, SkipOver
  <1>9. CASE SendRequest \/ Accepted \/ RequestFails \/ BatchEnds \/ CancelWait
             \/ SettleShell \/ CancelDone
    BY <1>1, <1>9 DEF SendRequest, Accepted, RequestFails, BatchEnds, CancelWait,
       SettleShell, CancelDone
  <1>10. CASE HostCrash
    BY <1>2, <1>10 DEF HostCrash
  <1>11. CASE UNCHANGED vars
    BY <1>1, <1>11 DEF vars
  <1> QED
    BY <1>1, <1>3, <1>4, <1>5, <1>6, <1>7, <1>8, <1>9, <1>10, <1>11
    DEF Next, ClientStep, MainStep, Threads
-----------------------------------------------------------------------------
(* A receipt counts as handled only when it has been shown.                *)
LEMMA ReceiptsStep ==
    ASSUME IInv, [Next]_vars
    PROVE  Receipts'
  <1>0. TypeOK /\ HasVerdict /\ Receipts
    BY DEF IInv
  <1>h. \A r \in Record, s \in ActiveStatus \cup TerminalStatus :
           /\ [r EXCEPT !.status = s].handled = r.handled
           /\ [r EXCEPT !.status = s, !.timeout = TRUE].handled = r.handled
    BY DEF Record
  <1>r. \A j \in Jobs : rec[j] \in Record
    BY <1>0 DEF TypeOK
  <1> DEFINE Kept == /\ \A k \in Jobs : rec'[k].handled => rec[k].handled
                     /\ shown' = shown
                     /\ main' = "settle" => main = "settle" /\ delivered' = delivered
  <1>k. Kept => Receipts'
    BY <1>0 DEF Receipts
  <1> USE DEF procVars, mainVars
  <1>1. ASSUME NEW j \in Jobs, NEW r \in Record, r.handled = rec[j].handled,
               rec' = Settled(j, r)
        PROVE  \A k \in Jobs : rec'[k].handled => rec[k].handled
    BY <1>0, <1>1 DEF Settled, TypeOK
  <1>2. ASSUME NEW j \in Jobs, Call(j) \/ SpawnWorker(j) \/ WorkerPopen(j) \/ WorkerPoll(j)
                  \/ WorkerCrash(j) \/ CommandEnds(j) \/ Expire(j) \/ SkipOver(j)
        PROVE  Kept
    BY <1>2 DEF Call, SpawnWorker, WorkerPopen, WorkerPoll, WorkerCrash, CommandEnds,
       Expire, SkipOver
  <1>3. ASSUME NEW j \in Jobs, Prepare(j) \/ RegisterWorker(j) \/ WorkerMark(j)
        PROVE  Kept
    <2>1. /\ rec'[j].handled = rec[j].handled
          /\ \A k \in Jobs : k # j => rec'[k] = rec[k]
      BY <1>0, <1>3 DEF Prepare, RegisterWorker, WorkerMark, TypeOK, Record
    <2>2. UNCHANGED <<main, delivered, shown>>
      BY <1>3 DEF Prepare, RegisterWorker, WorkerMark
    <2> QED BY <2>1, <2>2
  <1>4. ASSUME NEW j \in Jobs, StartFails(j)
        PROVE  Kept
    <2>1. /\ [rec[j] EXCEPT !.status = "failed"] \in Record
          /\ [rec[j] EXCEPT !.status = "failed"].handled = rec[j].handled
      BY <1>h, <1>r, UpdatedType DEF TerminalStatus
    <2> QED BY <1>1, <1>4, <2>1 DEF StartFails
  <1>5. ASSUME NEW j \in Jobs,
               WorkerLoad(j) \/ WorkerLaunched(j) \/ WorkerFinish(j) \/ WorkerRaises(j)
        PROVE  Kept
    <2>1. \A s \in TerminalStatus : /\ [rec[j] EXCEPT !.status = s] \in Record
                                    /\ [rec[j] EXCEPT !.status = s].handled = rec[j].handled
      BY <1>h, <1>r, UpdatedType
    <2>2. \/ rec' = rec
          \/ \E s \in TerminalStatus : rec' = Settled(j, [rec[j] EXCEPT !.status = s])
      BY <1>5 DEF WorkerLoad, WorkerLaunched, WorkerFinish, WorkerRaises, Finished,
         TerminalStatus
    <2>3. \A k \in Jobs : rec'[k].handled => rec[k].handled
      BY <1>1, <2>1, <2>2
    <2>4. UNCHANGED <<main, delivered, shown>>
      BY <1>5 DEF WorkerLoad, WorkerLaunched, WorkerFinish, WorkerRaises
    <2> QED BY <2>3, <2>4
  <1>6. ASSUME NEW c \in Threads, Settle(c)
        PROVE  Kept
    <2> DEFINE j == client[c].job
               v == client[c].verdict
    <2>1. j \in Jobs /\ v \in {"dying", "timeout", "unclear", "gone"}
      BY <1>0, <1>6 DEF Settle, HasVerdict, TypeOK
    <2>2. Verdict(j, v) \in Record
      BY <1>0, <2>1, VerdictType
    <2>3. {"failed", "cancelled", "interrupted", "cancelling"}
             \subseteq ActiveStatus \cup TerminalStatus
      BY DEF ActiveStatus, TerminalStatus
    <2>4. Verdict(j, v).handled = rec[j].handled
      BY <1>h, <1>r, <2>1, <2>3 DEF Verdict
    <2> QED BY <1>1, <1>6, <2>1, <2>2, <2>4 DEF Settle
  <1>7. ASSUME NEW c \in Threads, NEW j \in Jobs, RequestCancel(c, j)
        PROVE  Kept
    <2>1. /\ rec'[j].handled = rec[j].handled
          /\ \A k \in Jobs : k # j => rec'[k] = rec[k]
      BY <1>0, <1>7 DEF RequestCancel, TypeOK, Record
    <2>2. UNCHANGED <<main, delivered, shown>>
      BY <1>7 DEF RequestCancel
    <2> QED BY <2>1, <2>2
  <1>8. ASSUME NEW c \in Threads, NEW j \in Jobs,
               Query(c, j) \/ Judge(c) \/ CancelKill(c) \/ SendRequest \/ RequestFails
               \/ BatchEnds \/ SettleShell \/ CancelWait \/ CancelDone \/ HostCrash
               \/ UNCHANGED vars
        PROVE  Kept
    BY <1>8 DEF Query, Judge, CancelKill, SendRequest, RequestFails, BatchEnds,
       SettleShell, CancelWait, CancelDone, HostCrash, vars
  <1>9. CASE Accepted
    <2>1. \A k \in Jobs : rec'[k].handled => rec[k].handled \/ k \in delivered
      BY <1>0, <1>9 DEF Accepted
    <2> QED BY <1>0, <1>9, <2>1 DEF Accepted, Receipts
  <1> HIDE DEF procVars, mainVars, Kept
  <1> QED
    BY <1>k, <1>2, <1>3, <1>4, <1>5, <1>6, <1>7, <1>8, <1>9, JobsAssumption
    DEF Next, StarterStep, WorkerStep, ClientStep, MainStep, Threads

LEMMA InductiveInit == Init => IInv
  <1> SUFFICES ASSUME Init PROVE IInv
    OBVIOUS
  <1>1. TypeOK
    BY TypeInit
  <1>2. HasVerdict /\ Receipts
    BY DEF Init, HasVerdict, Receipts, Resting, NoRecord
  <1>3. FaultFree
    BY DEF Init, FaultFree, JobInv, StartOrder, InTime, WorkerEnds, WorkerSettles, NoOrphan,
       Completes, ThreadInv, Active, Terminal, Working, Running, ActiveStatus, TerminalStatus,
       Resting, NoRecord
  <1> QED BY <1>1, <1>2, <1>3 DEF IInv

LEMMA InductiveStep ==
    ASSUME IInv, [Next]_vars
    PROVE  IInv'
  <1>1. TypeOK' /\ HasVerdict'
    BY TypeStep, VerdictStep DEF IInv
  <1>2. FaultFree'
    BY JobStep, ThreadStep DEF FaultFree
  <1> QED BY <1>1, <1>2, ReceiptsStep DEF IInv

LEMMA Inductive == Spec => []IInv
  BY InductiveInit, InductiveStep, PTL DEF Spec

-----------------------------------------------------------------------------
(* Records, processes and threads always have their types, whatever the    *)
(* faults, for any number of jobs and clients.                             *)
THEOREM JobsTypeCorrect == Spec => []TypeOK
  <1>1. IInv => TypeOK
    BY DEF IInv
  <1> QED BY <1>1, Inductive, PTL

(* The result of a command that ends by itself in time is reported,        *)
(* however many queries judge its processes by old copies of the record    *)
(* (reconcile_background_job against the worker's _finish).                *)
THEOREM ResultsAreKept == Spec => []ResultKept
  <1>1. IInv => ResultKept
    BY DEF IInv, FaultFree, JobInv, Completes, ResultKept
  <1> QED BY <1>1, Inductive, PTL

(* In executions without a fault nobody writes that a job is over while    *)
(* its command runs on unobserved, except after a cut-off at the deadline. *)
LEMMA OverFact == IInv => OverIsOver
  <1> SUFFICES ASSUME IInv, NEW j \in Jobs, Terminal(j), Running(j), faults = 0, j \notin cut
               PROVE  Doomed(j)
    BY DEF OverIsOver, IInv, TypeOK
  <1>1. JobInv(j) /\ worker[j] \in {"no", "load", "popen", "launched", "mark", "poll", "gone"}
    BY DEF IInv, FaultFree, TypeOK
  <1>2. worker[j] \notin {"no", "load", "popen", "gone"}
    BY <1>1 DEF JobInv, StartOrder, NoOrphan, Running
  <1>3. CASE worker[j] = "poll"
    <2>1. expired[j] \/ rec[j].cancel
      BY <1>1, <1>3 DEF JobInv, WorkerEnds, Working, Active, Terminal, ActiveStatus,
         TerminalStatus
    <2> QED BY <1>3, <2>1 DEF Doomed
  <1> QED BY <1>1, <1>2, <1>3 DEF Doomed

THEOREM OverJobsAreOver == Spec => []OverIsOver
  BY OverFact, Inductive, PTL

(* The main loop delivers its answer only when the model has accepted the  *)
(* receipt of every required job, of which nothing runs on (settle_shell). *)
THEOREM DeliveryComesLast == Spec => DeliveryWaits
  <1> DEFINE A == main # "done" /\ main' = "done" =>
                    \A j \in Required : rec[j].status # "none" =>
                        /\ Terminal(j) /\ j \in shown
                        /\ Running(j) => Doomed(j) \/ faults > 0 \/ j \in cut
  <1>1. ASSUME IInv, [Next]_vars
        PROVE  A
    <2> SUFFICES ASSUME main # "done", main' = "done",
                        NEW j \in Required, rec[j].status # "none"
                 PROVE  /\ Terminal(j) /\ j \in shown
                        /\ Running(j) => Doomed(j) \/ faults > 0 \/ j \in cut
      OBVIOUS
    <2>1. SettleShell
      BY ZenonT(60), <1>1 DEF Next, StarterStep, WorkerStep, ClientStep, MainStep, Call, Prepare,
         SpawnWorker, RegisterWorker, StartFails, WorkerLoad, WorkerPopen, WorkerLaunched,
         WorkerMark, WorkerPoll, WorkerFinish, WorkerRaises, WorkerCrash, CommandEnds, Expire,
         Query, RequestCancel, Judge, Settle, CancelKill, SendRequest, Accepted, RequestFails,
         BatchEnds, CancelWait, SkipOver, CancelDone, HostCrash, vars, mainVars
    <2>2. /\ j \in Jobs /\ delivered = {}
          /\ rec[j].status \in {"none"} \cup ActiveStatus \cup TerminalStatus
          /\ rec[j].handled => j \in shown
      BY <1>1, <2>1, JobsAssumption DEF IInv, Receipts, SettleShell, TypeOK, Record
    <2>3. j \notin Pending /\ j \notin Ready
      BY <2>1 DEF SettleShell
    <2>4. Terminal(j)
      BY <2>2, <2>3 DEF Pending, Active, Terminal
    <2>5. j \in shown
      BY <2>2, <2>3, <2>4 DEF Ready
    <2>6. Running(j) => Doomed(j) \/ faults > 0 \/ j \in cut
      BY <1>1, <2>2, <2>4, OverFact DEF OverIsOver
    <2> QED BY <2>4, <2>5, <2>6
  <1>2. IInv /\ [Next]_vars => [A]_vars
    BY <1>1
  <1> QED BY <1>2, Inductive, PTL DEF Spec, DeliveryWaits
=============================================================================
