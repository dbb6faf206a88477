----------------------------- MODULE Deployment -----------------------------
(***************************************************************************)
(* The deployer of kemo-agent (src/deploy/core): one installation          *)
(* directory and the install, update, recover and start commands run on    *)
(* it.  A command holds .update.lock for as long as it lives - start for   *)
(* as long as the application lives - so there is one command at a time    *)
(* and "idle" means that nobody holds the lock.                            *)
(*                                                                         *)
(* Every file is replaced atomically; a release is many files.  Before the *)
(* first one is touched a journal with the old contents is on disk, the    *)
(* record is written last, and the journal is marked committed after that. *)
(* A failure restores the old contents at once, a crash leaves that to the *)
(* next command.  Install with --force and --allow-downgrade is assumed,   *)
(* which only takes refusals away; a command may fail at any step anyway.  *)
(***************************************************************************)
EXTENDS ReleaseFiles

CONSTANT
    LateInterrupts  \* an interrupt may hit right after the commit

ASSUME DeploymentAssumption == LateInterrupts \in BOOLEAN

VARIABLES
    disk,     \* the tree in the installation directory
    journal,  \* the newest transaction: [state, release, saved]
    pc,       \* where the command that holds the lock is, or "idle"
    cmd,      \* its locals: [release, overwrite, changes]
    todo,     \* entries it has yet to write or to restore
    late      \* observer: files a plan or journal covers, edited since

vars == <<disk, journal, pc, cmd, todo, late>>
-----------------------------------------------------------------------------
Saved == UNION {TreeOf(S) : S \in SUBSET Entries}

\* journal.saved maps the entries of the transaction to their old contents.
Journal == [state   : {"none", "applying", "committed", "rolled_back"},
            release : Releases \cup {NoRelease},
            saved   : Saved]

Control == {"idle", "locked", "recovering", "recovered", "running",
            "preparing", "applying", "committed", "rollback"}

\* The entries of a transaction in their order: what the release ships, what
\* it deletes, and the record; within each in the order of the archive.
Before(r, m, n) ==
    LET Group(k) == CASE k = Record -> 3
                      [] k # Record /\ Shipped(r, k) = Absent -> 2
                      [] OTHER -> 1
    IN  \/ Group(m) < Group(n)
        \/ Group(m) = Group(n) /\ m \in Files /\ n \in Files /\ m < n

First(r, n) == n \in todo /\ \A m \in todo : m = n \/ Before(r, n, m)
Last(r, n)  == n \in todo /\ \A m \in todo : m = n \/ Before(r, m, n)

InUse == /\ disk[Record] # NoRelease
         /\ Untouched(disk, VersionFile)
-----------------------------------------------------------------------------
Init ==
    /\ disk = EmptyTree
    /\ journal = [state |-> "none", release |-> NoRelease, saved |-> <<>>]
    /\ pc = "idle"
    /\ cmd = NoCommand
    /\ todo = {}
    /\ late = {}

Idle == /\ pc' = "idle"
        /\ cmd' = NoCommand
        /\ todo' = {}

Lock ==
    /\ pc = "idle"
    /\ pc' = "locked"
    /\ UNCHANGED <<disk, journal, cmd, todo>>

\* Mutant: a command relies on the version check to notice a broken tree.
NoRecover ==
    /\ pc = "locked"
    /\ pc' = "recovered"
    /\ UNCHANGED <<disk, journal, cmd, todo>>

\* Every command first looks for a transaction that was never finished.
Recover ==
    /\ pc = "locked"
    /\ IF journal.state = "applying"
         THEN pc' = "recovering" /\ todo' = DOMAIN journal.saved
         ELSE pc' = "recovered" /\ UNCHANGED todo
    /\ UNCHANGED <<disk, journal, cmd>>

\* The application runs under the lock.
Start ==
    /\ pc = "recovered"
    /\ InUse
    /\ pc' = "running"
    /\ UNCHANGED <<disk, journal, cmd, todo>>

\* The changes are planned, then the runtime is prepared, which takes minutes.
PlanInstall(r, overwrite) ==
    /\ pc = "recovered"
    /\ Installable(disk, r, overwrite)
    /\ pc' = "preparing"
    /\ cmd' = [release |-> r, overwrite |-> overwrite,
               changes |-> Changes(disk, r)]
    /\ UNCHANGED <<disk, journal, todo>>

\* The old contents of the entries, as they are now, go into the journal.
WriteJournal ==
    /\ pc = "preparing"
    /\ journal' = [state |-> "applying", release |-> cmd.release,
                   saved |-> [n \in cmd.changes |-> disk[n]]]
    /\ pc' = "applying"
    /\ todo' = cmd.changes
    /\ UNCHANGED <<disk, cmd>>

Apply(n) ==
    /\ pc = "applying"
    /\ First(cmd.release, n)
    /\ disk' = [disk EXCEPT ![n] = Shipped(cmd.release, n)]
    /\ todo' = todo \ {n}
    /\ UNCHANGED <<journal, pc, cmd>>

\* Mutant: the journal is marked committed with the record still to write.
EagerCommit ==
    /\ pc = "applying"
    /\ todo \subseteq {Record}
    /\ journal' = [journal EXCEPT !.state = "committed"]
    /\ pc' = "committed"
    /\ UNCHANGED <<disk, cmd, todo>>

Commit ==
    /\ pc = "applying"
    /\ todo = {}
    /\ journal' = [journal EXCEPT !.state = "committed"]
    /\ pc' = "committed"
    /\ UNCHANGED <<disk, cmd, todo>>

\* A write fails or the command is interrupted: it restores the old contents.
\* The handler covers the whole of the transaction, the moment after the
\* journal was marked committed included.
Fail ==
    /\ pc \in {"applying"} \cup (IF LateInterrupts THEN {"committed"} ELSE {})
    /\ pc' = "rollback"
    /\ todo' = DOMAIN journal.saved
    /\ UNCHANGED <<disk, journal, cmd>>

\* Mutant: files are removed, also those there were before.
RemovingRestore(n) ==
    /\ pc \in {"recovering", "rollback"}
    /\ Last(journal.release, n)
    /\ disk' = [disk EXCEPT ![n] = Absent]
    /\ todo' = todo \ {n}
    /\ UNCHANGED <<journal, pc, cmd>>

Restore(n) ==
    /\ pc \in {"recovering", "rollback"}
    /\ Last(journal.release, n)
    /\ disk' = [disk EXCEPT ![n] = journal.saved[n]]
    /\ todo' = todo \ {n}
    /\ UNCHANGED <<journal, pc, cmd>>

\* Recovery goes on with its command, a failed command ends.
Restored ==
    /\ pc \in {"recovering", "rollback"}
    /\ todo = {}
    /\ journal' = [journal EXCEPT !.state = "rolled_back"]
    /\ IF pc = "recovering"
         THEN pc' = "recovered" /\ UNCHANGED <<cmd, todo>>
         ELSE Idle
    /\ UNCHANGED disk

\* A command ends: done, refused, out of luck with the runtime, or stopped.
Return ==
    /\ pc \in {"recovered", "running", "preparing", "committed"}
    /\ Idle
    /\ UNCHANGED <<disk, journal>>

\* The process dies, or gives up restoring, and leaves the rest to the next.
Crash ==
    /\ pc \in {"locked", "recovering", "applying", "rollback"}
    /\ Idle
    /\ UNCHANGED <<disk, journal>>

CommandStep ==
    \/ Lock \/ Recover \/ Start
    \/ \E r \in Releases, overwrite \in BOOLEAN : PlanInstall(r, overwrite)
    \/ WriteJournal \/ Commit \/ Fail \/ Restored \/ Return \/ Crash
    \/ \E n \in Entries : Apply(n) \/ Restore(n)

\* The entries somebody has already decided about: a command that prepares its
\* runtime, or a transaction that has to be undone.
Covered ==
    (IF pc = "preparing" THEN cmd.changes ELSE {}) \cup
    (IF journal.state = "applying" THEN DOMAIN journal.saved ELSE {})

\* External: users and the agent's tools edit files of the installation, also
\* while a runtime is prepared and after a crash.  That they leave them alone
\* in the moments in which they are replaced or restored is an assumption.
Edit(n) ==
    /\ pc \in {"idle", "running", "preparing"}
    /\ disk' = [disk EXCEPT ![n] = Local]
    /\ late' = IF n \in Covered THEN late \cup {n} ELSE late
    /\ UNCHANGED <<journal, pc, cmd, todo>>

Next ==
    \/ CommandStep /\ late' = late \cap Covered'
    \/ \E n \in Files \ {VersionFile} : Edit(n)

Spec == Init /\ [][Next]_vars
-----------------------------------------------------------------------------
\* What the directory amounts to: as long as a journal says applying, the
\* contents it has saved are the ones that count.
Effective ==
    IF journal.state = "applying"
      THEN [n \in Entries |-> IF n \in DOMAIN journal.saved
                                THEN journal.saved[n] ELSE disk[n]]
      ELSE disk

\* What is planned, until it is installed or given up.
Planned == IF pc \in {"preparing", "applying"} THEN cmd ELSE NoCommand

Atomic == INSTANCE Installation WITH tree <- Effective, plan <- Planned

\* Tree, journal, control point and locals of the deployer stay in their types.
TypeOK ==
    /\ disk \in Tree
    /\ journal \in Journal
    /\ pc \in Control
    /\ cmd \in Command
    /\ todo \in SUBSET Entries
    /\ late \in SUBSET Files

\* The application never runs on a mixture of two releases: whatever failed or
\* died before, start recovers first (cli.py, _run_one; sync.py, recover).
RunningIsWhole == pc = "running" => Whole(disk)

\* The deployer implements the atomic installation: each of its steps plans or
\* gives up an installation, installs what was planned as a whole, is an edit
\* of a user, or changes nothing that counts.
AtomicInstallation == Atomic!Spec

\* What a user has put into a file is overwritten or deleted, by whatever step
\* of whatever command, only on --overwrite-modified, unless it came too late
\* to be seen: after the plan that covers the file (sync.py, plan), or after
\* the crash of a transaction the next command undoes (sync.py, _restore).
EditsKept ==
    [][\A n \in Files : disk[n] = Local /\ disk'[n] # Local
           => cmd.overwrite \/ n \in late]_vars

\* What deploy/README.md (section 3, --overwrite-modified) says without that
\* exemption: a modified file is overwritten on request.
OverwrittenOnRequest ==
    [][\A n \in Files : disk[n] = Local /\ disk'[n] # Local
           => cmd.overwrite]_vars
=============================================================================
