-------------------------- MODULE SystemCronProofs --------------------------
(***************************************************************************)
(* Theorems about SystemCron for any number of processes, starts, crashes  *)
(* and occurrences of the task: type correctness, that only the process    *)
(* holding the lease runs system tasks, and that the lease is never given  *)
(* up with a schedule that is only in memory and that nobody tried to save *)
(* as it is.                                                               *)
(***************************************************************************)
EXTENDS SystemCron, TLAPS

(* A worker lives under the lease from its dispatch to its release, and a  *)
(* thread that may still dispatch one has the lease.                       *)
LeaseKept ==
    \A p \in Procs :
        /\ worker[p] # "none" => lease = p
        /\ thread[p] = "scan" /\ ~stopping[p] => lease = p

(* Who is on the way out has been told to stop, and stop() itself goes on  *)
(* only when the thread is gone: no two of them release in each other's    *)
(* back, and no worker is dispatched any more.                             *)
Leaving == {"flush", "write", "release"}
EndsInOrder ==
    \A p \in Procs :
        /\ thread[p] \in Leaving => stopping[p]
        /\ worker[p] \in Leaving => stopping[p]
        /\ stopper[p] # "none" => stopping[p]
        /\ stopper[p] \in Leaving => thread[p] = "off"

(* Only the worker publishes, so once it is gone (or about to go) whoever  *)
(* flushes has the newest time, or finds nothing to save that was not      *)
(* refused as it is.                                                       *)
Newest(p, a) == Owed(p) => copy[p][a] = shown[p].next
LastFlushSaves ==
    \A p \in Procs :
        /\ worker[p] = "write" => Newest(p, "worker")
        /\ worker[p] = "release" => ~Owed(p)
        /\ worker[p] = "none" =>
              /\ thread[p] = "write" => Newest(p, "thread")
              /\ thread[p] = "release" => ~Owed(p)
              /\ stopper[p] = "write" => Newest(p, "stopper")
              /\ stopper[p] = "release" => ~Owed(p)

IInv == LeaseKept /\ EndsInOrder /\ LastFlushSaves /\ UnsavedIsLeaders
-----------------------------------------------------------------------------
(* Persisting: a step of a flush keeps the types, takes the newest time,   *)
(* and what is owed is paid with the attempt to write what is newest.      *)
ShownType == [Procs -> [next : Time, dirty : BOOLEAN, there : BOOLEAN, refused : BOOLEAN]]
CopyType == [Procs -> [Actors -> Time]]
Persists(p, a) == Take(p, a) \/ Nothing(p) \/ Written(p, a) \/ Refused(p, a)

LEMMA PersistType ==
    ASSUME TypeOK, NEW p \in Procs, NEW a \in Actors, Persists(p, a)
    PROVE  disk' \in Time /\ shown' \in ShownType /\ copy' \in CopyType
  <1> USE DEF TypeOK, ShownType, CopyType
  <1>1. CASE Take(p, a)
    BY <1>1 DEF Take
  <1>2. CASE Nothing(p)
    BY <1>2 DEF Nothing
  <1>3. CASE Written(p, a)
    <2>1. copy' \in CopyType /\ disk' \in Time
      <3>1. 0 \in Time
        BY SystemCronAssumption DEF Time
      <3> QED BY <1>3, <3>1 DEF Written
    <2>2. shown' \in ShownType
      BY ZenonT(60), <1>3 DEF Written
    <2> QED BY <2>1, <2>2
  <1>4. CASE Refused(p, a)
    <2>1. copy' \in CopyType /\ disk' \in Time
      <3>1. 0 \in Time
        BY SystemCronAssumption DEF Time
      <3> QED BY <1>4, <3>1 DEF Refused
    <2>2. shown' \in ShownType
      BY ZenonT(60), <1>4 DEF Refused
    <2> QED BY <2>1, <2>2
  <1> QED BY <1>1, <1>2, <1>3, <1>4 DEF Persists

LEMMA PersistKeeps ==
    ASSUME TypeOK, NEW p \in Procs, NEW a \in Actors, Persists(p, a), NEW q \in Procs
    PROVE  /\ shown'[q].next = shown[q].next
           /\ Owed(q)' => Owed(q)
           /\ q # p => shown'[q] = shown[q] /\ (Owed(q)' <=> Owed(q))
           /\ \A b \in Actors : q # p \/ b # a => copy'[q][b] = copy[q][b]
  <1> USE DEF TypeOK, Owed
  <1>1. CASE Take(p, a)
    BY <1>1 DEF Take
  <1>2. CASE Nothing(p)
    BY <1>2 DEF Nothing
  <1>3. CASE Written(p, a)
    <2>1. \A b \in Actors : q # p \/ b # a => copy'[q][b] = copy[q][b]
      BY <1>3 DEF Written
    <2>2. shown'[q].next = shown[q].next /\ (Owed(q)' => Owed(q))
      BY <1>3 DEF Written
    <2>3. q # p => shown'[q] = shown[q]
      BY <1>3 DEF Written
    <2> QED BY <2>1, <2>2, <2>3
  <1>4. CASE Refused(p, a)
    <2>1. \A b \in Actors : q # p \/ b # a => copy'[q][b] = copy[q][b]
      BY <1>4 DEF Refused
    <2>2. shown'[q].next = shown[q].next /\ (Owed(q)' => Owed(q))
      BY <1>4 DEF Refused
    <2>3. q # p => shown'[q] = shown[q]
      BY <1>4 DEF Refused
    <2> QED BY <2>1, <2>2, <2>3
  <1> QED BY <1>1, <1>2, <1>3, <1>4 DEF Persists

LEMMA TakesNewest ==
    ASSUME TypeOK, NEW p \in Procs, NEW a \in Actors, Take(p, a)
    PROVE  copy'[p][a] = shown'[p].next
  BY DEF TypeOK, Take

LEMMA WritesNewest ==
    ASSUME TypeOK, NEW p \in Procs, NEW a \in Actors, Newest(p, a),
           Written(p, a) \/ Refused(p, a)
    PROVE  ~Owed(p)'
  <1> USE DEF TypeOK, Owed
  <1>1. CASE Owed(p) /\ Written(p, a)
    <2>1. shown' = [shown EXCEPT ![p].dirty = FALSE, ![p].refused = FALSE]
      BY <1>1 DEF Written, Newest
    <2> QED BY <2>1
  <1>2. CASE Owed(p) /\ Refused(p, a)
    <2>1. shown' = [shown EXCEPT ![p].refused = TRUE]
      BY <1>2 DEF Refused, Newest
    <2> QED BY <2>1
  <1>3. CASE ~Owed(p)
    <2>1. Persists(p, a)
      BY DEF Persists
    <2> QED BY <1>3, <2>1, PersistKeeps
  <1> QED BY <1>1, <1>2, <1>3
-----------------------------------------------------------------------------
(* Types.                                                                  *)
LEMMA TypeInit == Init => TypeOK
  BY SystemCronAssumption DEF Init, TypeOK, Time, NoState

LEMMA CopyUpdated ==
    ASSUME TypeOK, NEW p \in Procs, NEW a \in Actors, NEW t \in Time
    PROVE  [copy EXCEPT ![p][a] = t] \in [Procs -> [Actors -> Time]]
  BY DEF TypeOK

LEMMA SlotIsTime ==
    ASSUME TypeOK, NEW p \in Procs
    PROVE  NextSlot(p) \in Time
  <1>1. at[p] \in 0..MaxTime /\ MaxTime \in Nat
    BY SystemCronAssumption DEF TypeOK
  <1> QED BY <1>1 DEF NextSlot, Time

(* The control points of a process's three actors, as TypeOK lists them.  *)
ThreadPc == {"off", "look", "scan", "flush", "write", "release"}
WorkerPc == {"none", "list", "run", "save", "end", "flush", "write", "release"}
StopperPc == {"none", "join", "flush", "write", "release"}

LEMMA TypeStep ==
    ASSUME TypeOK, [Next]_vars
    PROVE  TypeOK'
  <1>1. CASE UNCHANGED vars
    BY <1>1 DEF vars, TypeOK
  <1>2. CASE Tick
    BY <1>2, SystemCronAssumption DEF Tick, TypeOK
  <1>3. ASSUME NEW p \in Procs, Process(p)
        PROVE  TypeOK'
    <2> USE DEF TypeOK
    <2>1. CASE Start(p)
      <3>1. starts' \in [Procs -> 0..MaxStarts]
        BY <2>1, SystemCronAssumption DEF Start
      <3>2. stopping' \in [Procs -> BOOLEAN] /\ thread' \in [Procs -> ThreadPc]
        BY <2>1 DEF Start, ThreadPc
      <3> QED BY <2>1, <3>1, <3>2 DEF Start, ThreadPc
    <2>2. CASE Look(p)
      <3>1. thread' \in [Procs -> ThreadPc]
        BY ZenonT(60), <2>2 DEF Look, ThreadPc
      <3>2. lease' \in Procs \cup {NoProc}
        BY <2>2 DEF Look
      <3> QED BY <2>2, <3>1, <3>2 DEF Look, ThreadPc
    <2>3. CASE Scan(p)
      <3>1. thread' \in [Procs -> ThreadPc]
        BY <2>3 DEF Scan, ThreadPc
      <3>2. worker' \in [Procs -> WorkerPc]
        BY ZenonT(60), <2>3 DEF Scan, WorkerPc
      <3>3. at' \in [Procs -> 0..MaxTime]
        BY <2>3 DEF Scan
      <3> QED BY <2>3, <3>1, <3>2, <3>3 DEF Scan, ThreadPc, WorkerPc
    <2>4. CASE ThreadFlush(p)
      <3>1. "thread" \in Actors /\ Persists(p, "thread")
        BY <2>4 DEF ThreadFlush, Flush, Persists, Actors
      <3>2. thread' \in [Procs -> ThreadPc]
        BY <2>4 DEF ThreadFlush, Flush, ThreadPc
      <3> QED BY <2>4, <3>1, <3>2, PersistType DEF ThreadFlush, ShownType, CopyType, ThreadPc
    <2>5. CASE ThreadRelease(p)
      <3>1. thread' \in [Procs -> ThreadPc]
        BY <2>5 DEF ThreadRelease, ThreadPc
      <3>2. lease' \in Procs \cup {NoProc}
        BY <2>5 DEF ThreadRelease, ReleasedIfIdle, Released
      <3> QED BY <2>5, <3>1, <3>2 DEF ThreadRelease, ThreadPc
    <2>6. CASE List(p)
      <3>1. worker' \in [Procs -> WorkerPc]
        BY <2>6 DEF List, WorkerPc
      <3> QED BY <2>6, <3>1 DEF List, WorkerPc
    <2>7. CASE Mark(p)
      <3>1. NextSlot(p) \in Time
        BY SlotIsTime
      <3>2. copy' \in [Procs -> [Actors -> Time]]
        <4>1. copy' = copy \/ copy' = [copy EXCEPT ![p]["worker"] = NextSlot(p)]
          BY <2>7 DEF Mark
        <4>2. "worker" \in Actors
          BY DEF Actors
        <4>3. CASE copy' = copy
          BY <4>3
        <4>4. CASE copy' = [copy EXCEPT ![p]["worker"] = NextSlot(p)]
          <5>1. [copy EXCEPT ![p]["worker"] = NextSlot(p)] \in [Procs -> [Actors -> Time]]
            BY <3>1, <4>2, CopyUpdated
          <5> QED BY <4>4, <5>1
        <4> QED BY <4>1, <4>3, <4>4
      <3>3. shown' \in [Procs -> [next : Time, dirty : BOOLEAN, there : BOOLEAN, refused : BOOLEAN]]
        BY <2>7, <3>1 DEF Mark
      <3>4. at' \in [Procs -> 0..MaxTime]
        BY <2>7, SystemCronAssumption DEF Mark
      <3> QED BY <2>7, <3>1, <3>2, <3>3, <3>4 DEF Mark
    <2>8. CASE Save(p)
      <3>1. "worker" \in Actors /\ Persists(p, "worker")
        BY <2>8 DEF Save, Persists, Actors
      <3> QED BY <2>8, <3>1, PersistType DEF Save, ShownType, CopyType
    <2>9. CASE End(p)
      <3>1. worker' \in [Procs -> WorkerPc]
        BY <2>9 DEF End, WorkerPc
      <3> QED BY <2>9, <3>1 DEF End, WorkerPc
    <2>10. CASE WorkerFlush(p)
      <3>1. "worker" \in Actors /\ Persists(p, "worker")
        BY <2>10 DEF WorkerFlush, Flush, Persists, Actors
      <3>2. worker' \in [Procs -> {"none", "list", "run", "save", "end",
                                   "flush", "write", "release"}]
        BY ZenonT(60), <2>10 DEF WorkerFlush, Flush
      <3> QED BY <2>10, <3>1, <3>2, PersistType DEF WorkerFlush, ShownType, CopyType
    <2>11. CASE WorkerRelease(p)
      <3>1. worker' \in [Procs -> WorkerPc]
        BY <2>11 DEF WorkerRelease, WorkerPc
      <3>2. lease' \in Procs \cup {NoProc}
        BY <2>11 DEF WorkerRelease, Released
      <3> QED BY <2>11, <3>1, <3>2 DEF WorkerRelease, WorkerPc
    <2>12. CASE Stop(p)
      <3>1. stopper' \in [Procs -> StopperPc] /\ stopping' \in [Procs -> BOOLEAN]
        BY <2>12 DEF Stop, StopperPc
      <3> QED BY <2>12, <3>1 DEF Stop, StopperPc
    <2>13. CASE Joined(p)
      <3>1. stopper' \in [Procs -> StopperPc]
        BY <2>13 DEF Joined, StopperPc
      <3> QED BY <2>13, <3>1 DEF Joined, StopperPc
    <2>14. CASE StopFlush(p)
      <3>1. "stopper" \in Actors /\ Persists(p, "stopper")
        BY <2>14 DEF StopFlush, Flush, Persists, Actors
      <3>2. stopper' \in [Procs -> {"none", "join", "flush", "write", "release"}]
        BY <2>14 DEF StopFlush, Flush
      <3> QED BY <2>14, <3>1, <3>2, PersistType DEF StopFlush, ShownType, CopyType
    <2>15. CASE StopRelease(p)
      <3>1. stopper' \in [Procs -> StopperPc]
        BY <2>15 DEF StopRelease, StopperPc
      <3>2. lease' \in Procs \cup {NoProc}
        BY <2>15 DEF StopRelease, ReleasedIfIdle, Released
      <3> QED BY <2>15, <3>1, <3>2 DEF StopRelease, StopperPc
    <2>16. CASE Crash(p)
      <3>1. 0 \in Time /\ 0 \in 0..MaxTime
        BY SystemCronAssumption DEF Time
      <3>2. shown' \in [Procs -> [next : Time, dirty : BOOLEAN, there : BOOLEAN, refused : BOOLEAN]]
        BY <2>16, <3>1 DEF Crash, NoState
      <3>3. crashes' \in 0..MaxCrashes
        BY <2>16, SystemCronAssumption DEF Crash
      <3>4. lease' \in Procs \cup {NoProc}
        BY <2>16 DEF Crash, Released
      <3>5. thread' \in [Procs -> ThreadPc] /\ worker' \in [Procs -> WorkerPc]
        BY <2>16 DEF Crash, ThreadPc, WorkerPc
      <3>6. stopper' \in [Procs -> StopperPc] /\ stopping' \in [Procs -> BOOLEAN]
        BY <2>16 DEF Crash, StopperPc
      <3>7. at' \in [Procs -> 0..MaxTime] /\ copy' \in [Procs -> [Actors -> Time]]
        BY <2>16, <3>1 DEF Crash
      <3> QED BY <2>16, <3>2, <3>3, <3>4, <3>5, <3>6, <3>7
              DEF Crash, ThreadPc, WorkerPc, StopperPc
    <2> QED BY <1>3, <2>1, <2>2, <2>3, <2>4, <2>5, <2>6, <2>7, <2>8, <2>9, <2>10,
               <2>11, <2>12, <2>13, <2>14, <2>15, <2>16 DEF Process
  <1> QED BY <1>1, <1>2, <1>3 DEF Next

(* A process's times are occurrences that can be reached, its threads and  *)
(* stop() are at one of their control points.                              *)
THEOREM SystemTypeCorrect == Spec => []TypeOK
  <1>1. Init => TypeOK
    BY TypeInit
  <1>2. TypeOK /\ [Next]_vars => TypeOK'
    BY TypeStep
  <1> QED BY <1>1, <1>2, PTL DEF Spec
-----------------------------------------------------------------------------
(* The inductive invariant.                                                *)
LEMMA InvInit == Init => IInv
  BY DEF Init, NoState, IInv, LeaseKept, EndsInOrder, Leaving, LastFlushSaves,
         Newest, Owed, UnsavedIsLeaders

LEMMA LeaseKeptStep ==
    ASSUME TypeOK, LeaseKept, EndsInOrder, NEW p \in Procs, Process(p)
    PROVE  LeaseKept'
  <1> USE SystemCronAssumption DEF TypeOK, LeaseKept, EndsInOrder, Leaving
  <1>1. CASE Start(p)
    BY <1>1 DEF Start
  <1>2. CASE Look(p)
    BY <1>2 DEF Look
  <1>3. CASE Scan(p)
    BY <1>3 DEF Scan
  <1>4. CASE ThreadFlush(p)
    BY <1>4 DEF ThreadFlush, Flush
  <1>5. CASE ThreadRelease(p)
    BY <1>5 DEF ThreadRelease, ReleasedIfIdle, Released
  <1>6. CASE List(p)
    BY <1>6 DEF List
  <1>7. CASE Mark(p)
    BY <1>7 DEF Mark
  <1>8. CASE Save(p)
    BY <1>8 DEF Save
  <1>9. CASE End(p)
    BY <1>9 DEF End
  <1>10. CASE WorkerFlush(p)
    BY <1>10 DEF WorkerFlush, Flush
  <1>11. CASE WorkerRelease(p)
    BY <1>11 DEF WorkerRelease, Released
  <1>12. CASE Stop(p)
    BY <1>12 DEF Stop
  <1>13. CASE Joined(p)
    BY <1>13 DEF Joined
  <1>14. CASE StopFlush(p)
    BY <1>14 DEF StopFlush, Flush
  <1>15. CASE StopRelease(p)
    BY <1>15 DEF StopRelease, ReleasedIfIdle, Released
  <1>16. CASE Crash(p)
    BY <1>16 DEF Crash, Released
  <1> QED BY <1>1, <1>2, <1>3, <1>4, <1>5, <1>6, <1>7, <1>8,
             <1>9, <1>10, <1>11, <1>12, <1>13, <1>14, <1>15, <1>16 DEF Process

LEMMA EndsInOrderStep ==
    ASSUME TypeOK, EndsInOrder, NEW p \in Procs, Process(p)
    PROVE  EndsInOrder'
  <1> USE DEF TypeOK, EndsInOrder, Leaving
  <1>1. CASE Start(p)
    BY <1>1 DEF Start
  <1>2. CASE Look(p)
    BY <1>2 DEF Look
  <1>3. CASE Scan(p)
    BY <1>3 DEF Scan
  <1>4. CASE ThreadFlush(p)
    BY <1>4 DEF ThreadFlush, Flush
  <1>5. CASE ThreadRelease(p)
    BY <1>5 DEF ThreadRelease, ReleasedIfIdle, Released
  <1>6. CASE List(p)
    BY <1>6 DEF List
  <1>7. CASE Mark(p)
    BY <1>7 DEF Mark
  <1>8. CASE Save(p)
    BY <1>8 DEF Save
  <1>9. CASE End(p)
    BY <1>9 DEF End
  <1>10. CASE WorkerFlush(p)
    BY <1>10 DEF WorkerFlush, Flush
  <1>11. CASE WorkerRelease(p)
    BY <1>11 DEF WorkerRelease, Released
  <1>12. CASE Stop(p)
    BY <1>12 DEF Stop
  <1>13. CASE Joined(p)
    BY <1>13 DEF Joined
  <1>14. CASE StopFlush(p)
    BY <1>14 DEF StopFlush, Flush
  <1>15. CASE StopRelease(p)
    BY <1>15 DEF StopRelease, ReleasedIfIdle, Released
  <1>16. CASE Crash(p)
    BY <1>16 DEF Crash, Released
  <1> QED BY <1>1, <1>2, <1>3, <1>4, <1>5, <1>6, <1>7, <1>8,
             <1>9, <1>10, <1>11, <1>12, <1>13, <1>14, <1>15, <1>16 DEF Process

LEMMA UnsavedStep ==
    ASSUME TypeOK, LeaseKept, EndsInOrder, LastFlushSaves, UnsavedIsLeaders,
           NEW p \in Procs, Process(p)
    PROVE  UnsavedIsLeaders'
  <1> USE SystemCronAssumption DEF TypeOK, UnsavedIsLeaders, LastFlushSaves, Owed
  <1>1. CASE Start(p)
    BY <1>1 DEF Start
  <1>2. CASE Look(p)
    BY <1>2 DEF Look
  <1>3. CASE Scan(p)
    BY <1>3 DEF Scan
  <1>4. CASE ThreadFlush(p)
    <2>1. "thread" \in Actors /\ Persists(p, "thread") /\ lease' = lease
      BY <1>4 DEF ThreadFlush, Flush, Persists, Actors
    <2> QED BY <2>1, PersistKeeps
  <1>5. CASE ThreadRelease(p)
    <2>1. lease' # lease => lease = p /\ ~Owed(p)
      BY <1>5 DEF ThreadRelease, ReleasedIfIdle, Released
    <2> QED BY <1>5, <2>1 DEF ThreadRelease, ReleasedIfIdle, Released
  <1>6. CASE List(p)
    BY <1>6 DEF List
  <1>7. CASE Mark(p)
    <2>1. lease = p
      BY <1>7 DEF Mark, LeaseKept
    <2>2. \A q \in Procs : q # p => shown'[q] = shown[q]
      BY <1>7 DEF Mark
    <2> QED BY <1>7, <2>1, <2>2 DEF Mark
  <1>8. CASE Save(p)
    <2>1. "worker" \in Actors /\ Persists(p, "worker") /\ lease' = lease
      BY <1>8 DEF Save, Persists, Actors
    <2> QED BY <2>1, PersistKeeps
  <1>9. CASE End(p)
    BY <1>9 DEF End
  <1>10. CASE WorkerFlush(p)
    <2>1. "worker" \in Actors /\ Persists(p, "worker") /\ lease' = lease
      BY <1>10 DEF WorkerFlush, Flush, Persists, Actors
    <2> QED BY <2>1, PersistKeeps
  <1>11. CASE WorkerRelease(p)
    BY <1>11 DEF WorkerRelease, Released
  <1>12. CASE Stop(p)
    BY <1>12 DEF Stop
  <1>13. CASE Joined(p)
    BY <1>13 DEF Joined
  <1>14. CASE StopFlush(p)
    <2>1. "stopper" \in Actors /\ Persists(p, "stopper") /\ lease' = lease
      BY <1>14 DEF StopFlush, Flush, Persists, Actors
    <2> QED BY <2>1, PersistKeeps
  <1>15. CASE StopRelease(p)
    <2>1. lease' # lease => lease = p /\ ~Owed(p)
      BY <1>15 DEF StopRelease, ReleasedIfIdle, Released
    <2> QED BY <1>15, <2>1 DEF StopRelease, ReleasedIfIdle, Released
  <1>16. CASE Crash(p)
    <2>1. ~Owed(p)'
      BY <1>16 DEF Crash, NoState
    <2>2. \A q \in Procs : q # p => shown'[q] = shown[q]
      BY <1>16 DEF Crash
    <2> QED BY <1>16, <2>1, <2>2 DEF Crash, Released
  <1> QED BY <1>1, <1>2, <1>3, <1>4, <1>5, <1>6, <1>7, <1>8,
             <1>9, <1>10, <1>11, <1>12, <1>13, <1>14, <1>15, <1>16 DEF Process

LEMMA LastFlushSavesStep ==
    ASSUME TypeOK, EndsInOrder, LastFlushSaves, NEW p \in Procs, Process(p)
    PROVE  LastFlushSaves'
  <1> USE DEF TypeOK
  <1>1. CASE Start(p)
    BY <1>1, SystemCronAssumption DEF Start, LastFlushSaves, Newest, Owed
  <1>2. CASE Look(p)
    BY <1>2, SystemCronAssumption DEF Look, LastFlushSaves, Newest, Owed
  <1>3. CASE Scan(p)
    BY <1>3, SystemCronAssumption DEF Scan, LastFlushSaves, Newest, Owed
  <1>4. CASE ThreadFlush(p)
    <2>1. "thread" \in Actors /\ Persists(p, "thread")
      BY <1>4 DEF ThreadFlush, Flush, Persists, Actors
    <2>2. thread'[p] = "write" => Newest(p, "thread")'
      BY <1>4, <2>1, TakesNewest DEF ThreadFlush, Flush, Newest
    <2>3. thread'[p] = "release" /\ worker[p] = "none" => ~Owed(p)'
      <3>1. CASE Nothing(p)
        BY <3>1 DEF Nothing, Owed
      <3>2. CASE thread[p] = "write" /\ (Written(p, "thread") \/ Refused(p, "thread"))
        BY <2>1, <3>2, WritesNewest DEF LastFlushSaves
      <3> QED BY <1>4, <3>1, <3>2 DEF ThreadFlush, Flush
    <2>4. \A q \in Procs, b \in Actors :
             (q # p \/ b # "thread") /\ Newest(q, b) => Newest(q, b)'
      BY <2>1, PersistKeeps DEF Newest
    <2>5. \A q \in Procs : ~Owed(q) => ~Owed(q)'
      BY <2>1, PersistKeeps
    <2>6. \A q \in Procs : q # p => thread'[q] = thread[q]
      BY <1>4 DEF ThreadFlush, Flush
    <2>7. worker' = worker /\ stopper' = stopper
      BY <1>4 DEF ThreadFlush, Flush
    <2> QED BY <2>2, <2>3, <2>4, <2>5, <2>6, <2>7 DEF LastFlushSaves, Actors
  <1>5. CASE ThreadRelease(p)
    BY <1>5, SystemCronAssumption DEF ThreadRelease, LastFlushSaves, Newest, Owed
  <1>6. CASE List(p)
    BY <1>6, SystemCronAssumption DEF List, LastFlushSaves, Newest, Owed
  <1>7. CASE Mark(p)
    BY <1>7, SystemCronAssumption DEF Mark, LastFlushSaves, Newest, Owed
  <1>8. CASE Save(p)
    <2>1. "worker" \in Actors /\ Persists(p, "worker")
      BY <1>8 DEF Save, Persists, Actors
    <2>2. \A q \in Procs, b \in Actors :
             (q # p \/ b # "worker") /\ Newest(q, b) => Newest(q, b)'
      BY <2>1, PersistKeeps DEF Newest
    <2>3. \A q \in Procs : ~Owed(q) => ~Owed(q)'
      BY <2>1, PersistKeeps
    <2> QED BY <1>8, <2>2, <2>3 DEF Save, LastFlushSaves, Actors
  <1>9. CASE End(p)
    BY <1>9, SystemCronAssumption DEF End, LastFlushSaves, Newest, Owed, EndsInOrder, Leaving
  <1>10. CASE WorkerFlush(p)
    <2>1. "worker" \in Actors /\ Persists(p, "worker")
      BY <1>10 DEF WorkerFlush, Flush, Persists, Actors
    <2>2. worker'[p] = "write" => Newest(p, "worker")'
      BY <1>10, <2>1, TakesNewest DEF WorkerFlush, Flush, Newest
    <2>3. worker'[p] = "release" => ~Owed(p)'
      <3>1. CASE Nothing(p)
        BY <3>1 DEF Nothing, Owed
      <3>2. CASE worker[p] = "write" /\ (Written(p, "worker") \/ Refused(p, "worker"))
        BY <2>1, <3>2, WritesNewest DEF LastFlushSaves
      <3> QED BY <1>10, <3>1, <3>2 DEF WorkerFlush, Flush
    <2>4. \A q \in Procs, b \in Actors :
             (q # p \/ b # "worker") /\ Newest(q, b) => Newest(q, b)'
      BY <2>1, PersistKeeps DEF Newest
    <2>5. \A q \in Procs : ~Owed(q) => ~Owed(q)'
      BY <2>1, PersistKeeps
    <2>6. \A q \in Procs : q # p => worker'[q] = worker[q]
      BY <1>10 DEF WorkerFlush, Flush
    <2>7. thread' = thread /\ stopper' = stopper /\ worker'[p] # "none"
      BY <1>10 DEF WorkerFlush, Flush
    <2> QED BY <2>2, <2>3, <2>4, <2>5, <2>6, <2>7 DEF LastFlushSaves, Actors
  <1>11. CASE WorkerRelease(p)
    BY <1>11, SystemCronAssumption DEF WorkerRelease, LastFlushSaves, Newest, Owed
  <1>12. CASE Stop(p)
    BY <1>12, SystemCronAssumption DEF Stop, LastFlushSaves, Newest, Owed
  <1>13. CASE Joined(p)
    BY <1>13, SystemCronAssumption DEF Joined, LastFlushSaves, Newest, Owed
  <1>14. CASE StopFlush(p)
    <2>1. "stopper" \in Actors /\ Persists(p, "stopper")
      BY <1>14 DEF StopFlush, Flush, Persists, Actors
    <2>2. stopper'[p] = "write" => Newest(p, "stopper")'
      BY <1>14, <2>1, TakesNewest DEF StopFlush, Flush, Newest
    <2>3. stopper'[p] = "release" /\ worker[p] = "none" => ~Owed(p)'
      <3>1. CASE Nothing(p)
        BY <3>1 DEF Nothing, Owed
      <3>2. CASE stopper[p] = "write" /\ (Written(p, "stopper") \/ Refused(p, "stopper"))
        BY <2>1, <3>2, WritesNewest DEF LastFlushSaves
      <3> QED BY <1>14, <3>1, <3>2 DEF StopFlush, Flush
    <2>4. \A q \in Procs, b \in Actors :
             (q # p \/ b # "stopper") /\ Newest(q, b) => Newest(q, b)'
      BY <2>1, PersistKeeps DEF Newest
    <2>5. \A q \in Procs : ~Owed(q) => ~Owed(q)'
      BY <2>1, PersistKeeps
    <2>6. \A q \in Procs : q # p => stopper'[q] = stopper[q]
      BY <1>14 DEF StopFlush, Flush
    <2>7. worker' = worker /\ thread' = thread
      BY <1>14 DEF StopFlush, Flush
    <2> QED BY <2>2, <2>3, <2>4, <2>5, <2>6, <2>7 DEF LastFlushSaves, Actors
  <1>15. CASE StopRelease(p)
    BY <1>15, SystemCronAssumption DEF StopRelease, LastFlushSaves, Newest, Owed
  <1>16. CASE Crash(p)
    BY <1>16, SystemCronAssumption DEF Crash, LastFlushSaves, Newest, Owed
  <1> QED BY <1>1, <1>2, <1>3, <1>4, <1>5, <1>6, <1>7, <1>8,
             <1>9, <1>10, <1>11, <1>12, <1>13, <1>14, <1>15, <1>16 DEF Process

LEMMA InvStep ==
    ASSUME TypeOK, IInv, [Next]_vars
    PROVE  IInv'
  <1>1. CASE UNCHANGED vars
    BY <1>1 DEF vars, IInv, LeaseKept, EndsInOrder, Leaving, LastFlushSaves, Newest, Owed,
                UnsavedIsLeaders
  <1>2. CASE Tick
    BY <1>2 DEF Tick, IInv, LeaseKept, EndsInOrder, Leaving, LastFlushSaves, Newest, Owed,
                UnsavedIsLeaders
  <1>3. ASSUME NEW p \in Procs, Process(p)
        PROVE  IInv'
    BY <1>3, LeaseKeptStep, EndsInOrderStep, LastFlushSavesStep, UnsavedStep DEF IInv
  <1> QED BY <1>1, <1>2, <1>3 DEF Next

LEMMA InvAlways == Spec => [](TypeOK /\ IInv)
  <1>1. Init => TypeOK /\ IInv
    BY TypeInit, InvInit
  <1>2. TypeOK /\ IInv /\ [Next]_vars => TypeOK' /\ IInv'
    BY TypeStep, InvStep
  <1> QED BY <1>1, <1>2, PTL DEF Spec

(* The process that runs a system task, or persists it, holds the lease,   *)
(* although stop() may give up waiting for it and either of its threads,   *)
(* or stop() itself, may be the one that releases.                         *)
THEOREM LeaderRunsAlone == Spec => []OnlyLeaderRuns
  <1>1. LeaseKept => OnlyLeaderRuns
    BY DEF LeaseKept, OnlyLeaderRuns
  <1> QED BY <1>1, InvAlways, PTL DEF IInv

(* A schedule that is only in memory belongs to the leader, or could not be *)
(* written: in whatever order the threads and stop() end, one of them has   *)
(* tried to save the newest schedule before the release, for                *)
(* flush_persistence goes on when a write raises.                           *)
THEOREM UnsavedStaysWithLeader == Spec => []UnsavedIsLeaders
  BY InvAlways, PTL DEF IInv
=============================================================================
