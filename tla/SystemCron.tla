----------------------------- MODULE SystemCron -----------------------------
(***************************************************************************)
(* System cron tasks (src/cron, src/run/scheduler/runtime_state.py): one   *)
(* of several processes leads, by an operating-system file lock.  Its      *)
(* worker runs the due task and keeps the next time in memory; the time    *)
(* reaches the disk at checkpoints and before the leadership is given up.  *)
(***************************************************************************)
EXTENDS Integers

CONSTANTS
    Procs, NoProc,
    Checkpoints,  \* the worker may persist as well (runtime_checkpoint_seconds)
    Refusals,     \* writing the task file may fail
    MaxTime, MaxStarts, MaxCrashes  \* bounds

ASSUME SystemCronAssumption ==
    /\ NoProc \notin Procs /\ {Checkpoints, Refusals} \subseteq BOOLEAN
    /\ {MaxTime, MaxStarts, MaxCrashes} \subseteq Nat

VARIABLES
    now,
    disk,      \* next_run_at of the task on disk
    shown,     \* per process: the overlay _STATES, with its dirty flag;
               \* observer "refused": it could not be written as it is
    lease,     \* the process that holds the file lock
    thread,    \* per process: scheduler thread
    worker,    \* per process: _system_worker
    stopper,   \* per process: the caller of stop()
    stopping,  \* per process: _stop_event
    at,        \* per process: the time of the worker's scan
    copy,      \* per process and actor: a snapshot being persisted
    starts, crashes,
    truth      \* observer: the next time after the last run

vars == <<now, disk, shown, lease, thread, worker, stopper, stopping, at, copy,
          starts, crashes, truth>>

Time == 0..MaxTime + 1
Actors == {"thread", "worker", "stopper"}
NoState == [next |-> 0, dirty |-> FALSE, there |-> FALSE, refused |-> FALSE]
\* overlay_cron_runtime: memory wins over the disk.
Next_run(p) == IF shown[p].there THEN shown[p].next ELSE disk

Init == /\ now = 0 /\ disk = 0 /\ truth = 0
        /\ shown = [p \in Procs |-> NoState]
        /\ lease = NoProc
        /\ thread = [p \in Procs |-> "off"]
        /\ worker = [p \in Procs |-> "none"]
        /\ stopper = [p \in Procs |-> "none"]
        /\ stopping = [p \in Procs |-> FALSE]
        /\ at = [p \in Procs |-> 0]
        /\ copy = [p \in Procs |-> [a \in Actors |-> 0]]
        /\ starts = [p \in Procs |-> 0] /\ crashes = 0

Tick == /\ now < MaxTime /\ now' = now + 1
        /\ UNCHANGED <<disk, shown, lease, thread, worker, stopper, stopping, at, copy,
                       starts, crashes, truth>>
-----------------------------------------------------------------------------
(* Persisting.                                                             *)

\* pending_cron_runtime: a snapshot of the dirty state, if there is one.
Take(p, a) == copy' = [copy EXCEPT ![p][a] = shown[p].next] /\ UNCHANGED <<disk, shown>>
Nothing(p) == ~shown[p].dirty /\ UNCHANGED <<disk, shown, copy>>

\* _persist_runtime_state and mark_cron_runtime_checkpoint: only the state
\* that was written becomes clean.
Written(p, a) ==
    /\ disk' = copy[p][a]
    /\ shown' = IF shown[p].next # copy[p][a] THEN shown
                ELSE [shown EXCEPT ![p].dirty = FALSE, ![p].refused = FALSE]
    /\ copy' = [copy EXCEPT ![p][a] = 0]

\* The exception is reported and swallowed: the state stays dirty.
Refused(p, a) ==
    /\ Refusals
    /\ shown' = IF shown[p].next # copy[p][a] THEN shown
                ELSE [shown EXCEPT ![p].refused = TRUE]
    /\ copy' = [copy EXCEPT ![p][a] = 0] /\ UNCHANGED disk

\* flush_persistence by one actor: from pc "flush" over "write" to "release",
\* whatever becomes of the write.
Flush(p, pc, pc2, a) ==
    \/ /\ pc[p] = "flush" /\ shown[p].dirty
       /\ Take(p, a) /\ pc2 = [pc EXCEPT ![p] = "write"]
    \/ /\ pc[p] = "flush" /\ Nothing(p) /\ pc2 = [pc EXCEPT ![p] = "release"]
    \/ /\ pc[p] = "write" /\ Written(p, a) /\ pc2 = [pc EXCEPT ![p] = "release"]
    \/ /\ pc[p] = "write" /\ Refused(p, a) /\ pc2 = [pc EXCEPT ![p] = "release"]

Released(p) == IF lease = p THEN NoProc ELSE lease
\* Mutant: a thread that ends gives the lease up, whoever still works.
ReleasedByThread(p) == Released(p)
\* The lease is kept while the worker is alive.
ReleasedIfIdle(p) == IF worker[p] = "none" THEN Released(p) ELSE lease
-----------------------------------------------------------------------------
(* Scheduler thread.                                                       *)

\* start() refuses while the worker of the last start is alive.
Start(p) ==
    /\ thread[p] = "off" /\ worker[p] = "none" /\ stopper[p] = "none"
    /\ starts[p] < MaxStarts /\ starts' = [starts EXCEPT ![p] = @ + 1]
    /\ stopping' = [stopping EXCEPT ![p] = FALSE]
    /\ thread' = [thread EXCEPT ![p] = "look"]
    /\ UNCHANGED <<now, disk, shown, lease, worker, stopper, at, copy, crashes, truth>>

\* The loop of _run_loop: leave it, or try to become the leader.
Look(p) ==
    /\ thread[p] = "look"
    /\ IF stopping[p]
       THEN thread' = [thread EXCEPT ![p] = "flush"] /\ UNCHANGED lease
       ELSE IF lease \in {p, NoProc}
       THEN thread' = [thread EXCEPT ![p] = "scan"] /\ lease' = p
       ELSE UNCHANGED <<thread, lease>>
    /\ UNCHANGED <<now, disk, shown, worker, stopper, stopping, at, copy, starts, crashes, truth>>

\* dispatch_system_scan: one worker at a time.
Scan(p) ==
    /\ thread[p] = "scan"
    /\ thread' = [thread EXCEPT ![p] = "look"]
    /\ IF ~stopping[p] /\ worker[p] = "none"
       THEN worker' = [worker EXCEPT ![p] = "list"] /\ at' = [at EXCEPT ![p] = now]
       ELSE UNCHANGED <<worker, at>>
    /\ UNCHANGED <<now, disk, shown, lease, stopper, stopping, copy, starts, crashes, truth>>

ThreadFlush(p) ==
    /\ Flush(p, thread, thread', "thread")
    /\ UNCHANGED <<now, lease, worker, stopper, stopping, at, starts, crashes, truth>>

ThreadRelease(p) ==
    /\ thread[p] = "release"
    /\ lease' = ReleasedIfIdle(p)
    /\ thread' = [thread EXCEPT ![p] = "off"]
    /\ UNCHANGED <<now, disk, shown, worker, stopper, stopping, at, copy, starts, crashes, truth>>
-----------------------------------------------------------------------------
(* System worker.                                                          *)

Due(p) == Next_run(p) <= at[p]

List(p) ==
    /\ worker[p] = "list"
    /\ worker' = [worker EXCEPT ![p] = IF ~stopping[p] /\ Due(p) THEN "run" ELSE "end"]
    /\ UNCHANGED <<now, disk, shown, lease, thread, stopper, stopping, at, copy, starts, crashes, truth>>

\* Mutant: the time after the next one.
SlotAfterNext(p) == at[p] + 2
\* The next time after the scan's.
NextSlot(p) == at[p] + 1

\* The task has run (or a stop kept it from every user): the next time is
\* published, and persisted when it failed or a checkpoint is due.
Mark(p) ==
    /\ worker[p] = "run"
    /\ shown' = [shown EXCEPT ![p] = [next |-> NextSlot(p), dirty |-> TRUE,
                                         there |-> TRUE, refused |-> FALSE]]
    /\ truth' = NextSlot(p)
    /\ at' = [at EXCEPT ![p] = 0]
    /\ \/ /\ worker' = [worker EXCEPT ![p] = "end"] /\ UNCHANGED copy
       \/ /\ Checkpoints /\ worker' = [worker EXCEPT ![p] = "save"]
          /\ copy' = [copy EXCEPT ![p]["worker"] = NextSlot(p)]
    /\ UNCHANGED <<now, disk, lease, thread, stopper, stopping, starts, crashes>>

Save(p) ==
    /\ worker[p] = "save"
    /\ Written(p, "worker") \/ Refused(p, "worker")
    /\ worker' = [worker EXCEPT ![p] = "end"]
    /\ UNCHANGED <<now, lease, thread, stopper, stopping, at, starts, crashes, truth>>

\* Mutant: the worker gives the lease up before it has flushed.
EndReleases(p) ==
    /\ worker[p] = "end"
    /\ worker' = [worker EXCEPT ![p] = IF stopping[p] THEN "flush" ELSE "none"]
    /\ lease' = IF stopping[p] THEN Released(p) ELSE lease
    /\ UNCHANGED <<now, disk, shown, thread, stopper, stopping, at, copy, starts, crashes, truth>>

\* The finally clause of the worker.
End(p) ==
    /\ worker[p] = "end"
    /\ worker' = [worker EXCEPT ![p] = IF stopping[p] THEN "flush" ELSE "none"]
    /\ UNCHANGED <<now, disk, shown, lease, thread, stopper, stopping, at, copy, starts, crashes, truth>>

WorkerFlush(p) ==
    /\ Flush(p, worker, worker', "worker")
    /\ UNCHANGED <<now, lease, thread, stopper, stopping, at, starts, crashes, truth>>

WorkerRelease(p) ==
    /\ worker[p] = "release"
    /\ lease' = Released(p)
    /\ worker' = [worker EXCEPT ![p] = "none"]
    /\ UNCHANGED <<now, disk, shown, thread, stopper, stopping, at, copy, starts, crashes, truth>>
-----------------------------------------------------------------------------
(* stop() and the end of a process.                                        *)

Stop(p) ==
    /\ thread[p] # "off" /\ ~stopping[p]
    /\ stopping' = [stopping EXCEPT ![p] = TRUE]
    /\ stopper' = [stopper EXCEPT ![p] = "join"]
    /\ UNCHANGED <<now, disk, shown, lease, thread, worker, at, copy, starts, crashes, truth>>

\* The joins are over, perhaps by their timeout: with a thread that is still
\* alive stop() leaves everything to it.
Joined(p) ==
    /\ stopper[p] = "join"
    /\ stopper' = [stopper EXCEPT ![p] = IF thread[p] = "off" THEN "flush" ELSE "none"]
    /\ UNCHANGED <<now, disk, shown, lease, thread, worker, stopping, at, copy, starts, crashes, truth>>

StopFlush(p) ==
    /\ Flush(p, stopper, stopper', "stopper")
    /\ UNCHANGED <<now, lease, thread, worker, stopping, at, starts, crashes, truth>>

StopRelease(p) ==
    /\ stopper[p] = "release"
    /\ lease' = ReleasedIfIdle(p)
    /\ stopper' = [stopper EXCEPT ![p] = "none"]
    /\ UNCHANGED <<now, disk, shown, thread, worker, stopping, at, copy, starts, crashes, truth>>

\* The operating system frees the lock; what was not persisted is lost.
Crash(p) ==
    /\ crashes < MaxCrashes /\ crashes' = crashes + 1
    /\ thread' = [thread EXCEPT ![p] = "off"] /\ worker' = [worker EXCEPT ![p] = "none"]
    /\ stopper' = [stopper EXCEPT ![p] = "none"] /\ stopping' = [stopping EXCEPT ![p] = FALSE]
    /\ shown' = [shown EXCEPT ![p] = NoState]
    /\ lease' = Released(p)
    /\ truth' = IF lease = p THEN disk ELSE truth
    /\ at' = [at EXCEPT ![p] = 0] /\ copy' = [copy EXCEPT ![p] = [a \in Actors |-> 0]]
    /\ UNCHANGED <<now, disk, starts>>
-----------------------------------------------------------------------------
Process(p) ==
    \/ Start(p) \/ Look(p) \/ Scan(p) \/ ThreadFlush(p) \/ ThreadRelease(p)
    \/ List(p) \/ Mark(p) \/ Save(p) \/ End(p) \/ WorkerFlush(p) \/ WorkerRelease(p)
    \/ Stop(p) \/ Joined(p) \/ StopFlush(p) \/ StopRelease(p) \/ Crash(p)
Next == Tick \/ \E p \in Procs : Process(p)
Spec == Init /\ [][Next]_vars
-----------------------------------------------------------------------------
\* Times stay among the slots that can be reached, control points in theirs.
TypeOK ==
    /\ now \in 0..MaxTime /\ disk \in Time /\ truth \in Time
    /\ shown \in [Procs -> [next : Time, dirty : BOOLEAN, there : BOOLEAN, refused : BOOLEAN]]
    /\ lease \in Procs \cup {NoProc}
    /\ thread \in [Procs -> {"off", "look", "scan", "flush", "write", "release"}]
    /\ worker \in [Procs -> {"none", "list", "run", "save", "end", "flush", "write", "release"}]
    /\ stopper \in [Procs -> {"none", "join", "flush", "write", "release"}]
    /\ stopping \in [Procs -> BOOLEAN]
    /\ at \in [Procs -> 0..MaxTime]
    /\ copy \in [Procs -> [Actors -> Time]]
    /\ starts \in [Procs -> 0..MaxStarts] /\ crashes \in 0..MaxCrashes

\* Only the leader runs system tasks, whichever of its threads has stopped:
\* a stop that gave up waiting leaves the lease to the worker.
OnlyLeaderRuns == \A p \in Procs : worker[p] \in {"run", "save"} => lease = p

\* The schedule is only in memory, and nobody has tried to write it in vain.
Owed(p) == shown[p].dirty /\ ~shown[p].refused

\* A schedule that is only in memory is the leader's, unless the task file could
\* not be written: whichever of its threads gives the lease up, and in whatever
\* order, one of them has tried to save the newest schedule before.
UnsavedIsLeaders == \A p \in Procs : Owed(p) => lease = p
-----------------------------------------------------------------------------
(* What runtime_state.py says of the schedule, which fails; see README.md. *)

\* A leader acts on a schedule that is at least as new as the one on disk.
LeaderIsCurrent == \A p \in Procs : lease = p /\ ~shown[p].dirty => Next_run(p) >= disk

\* A schedule that is only in memory is the leader's.
LeadersAlone == \A p \in Procs : shown[p].dirty => lease = p

\* A leadership that was given up has left the last schedule on disk.
HandedOver == lease = NoProc => disk = truth
=============================================================================
