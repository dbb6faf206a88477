-------------------------- MODULE DeploymentProofs --------------------------
(***************************************************************************)
(* Theorems about Deployment for any releases, files and contents: type    *)
(* correctness, and that an edit is overwritten only on request or when it *)
(* came after the plan or the crash; and, as long as no interrupt hits     *)
(* right after the commit, that the application never runs on a mixture of *)
(* releases, and that the deployer implements the atomic Installation.     *)
(*                                                                         *)
(* The argument for edits follows the files a plan or a journal covers.    *)
(* For the rest, what counts is Effective, the tree with the contents the  *)
(* journal has saved put over it while the journal says applying.  Writing *)
(* and restoring files happens under those contents and changes nothing;   *)
(* the commit takes them away at the moment the tree is the installed one. *)
(***************************************************************************)
EXTENDS Deployment, TLAPS

-----------------------------------------------------------------------------
(* Trees.                                                                  *)
LEMMA ShippedType ==
    ASSUME NEW r \in Releases \cup {NoRelease}, NEW n \in Entries
    PROVE  /\ Shipped(r, n) \in ContentOf(n)
           /\ n \in Files => Shipped(r, n) # Local
  <1>1. CASE n = Record
    BY <1>1, ReleaseAssumption DEF Shipped, ContentOf
  <1>2. CASE n # Record /\ r \in Releases
    BY <1>2, ReleaseAssumption DEF Shipped, ContentOf, Entries
  <1>3. CASE n # Record /\ r \notin Releases
    BY <1>3, ReleaseAssumption DEF Shipped, ContentOf, Entries
  <1> QED BY <1>1, <1>2, <1>3

LEMMA RestrictedTree ==
    ASSUME NEW t \in Tree, NEW S \in SUBSET Entries
    PROVE  [n \in S |-> t[n]] \in TreeOf(S)
  BY DEF Tree, TreeOf

LEMMA UpdatedTree ==
    ASSUME NEW S, NEW t \in TreeOf(S), NEW n, NEW c \in ContentOf(n)
    PROVE  [t EXCEPT ![n] = c] \in TreeOf(S)
  BY DEF TreeOf

LEMMA SavedType ==
    ASSUME NEW s \in Saved
    PROVE  /\ DOMAIN s \in SUBSET Entries
           /\ \A n \in DOMAIN s : s[n] \in ContentOf(n)
  BY DEF Saved, TreeOf

LEMMA LocalType == \A n \in Files : n \in Entries /\ n # Record
                                    /\ Local \in ContentOf(n)
  BY ReleaseAssumption DEF Entries, ContentOf

LEMMA ChangesType ==
    ASSUME NEW t, NEW r
    PROVE  Changes(t, r) \in SUBSET Entries
  BY DEF Changes, Entries

LEMMA EmptyType == EmptyTree \in Tree
  BY ShippedType DEF EmptyTree, Tree, TreeOf

LEMMA NoCommandType == NoCommand \in Command
  BY DEF NoCommand, Command

-----------------------------------------------------------------------------
(* A plan made on a whole tree fits it, an edit leaves tree and plan so,   *)
(* and carrying out a plan that fits gives a whole tree.  A plan without   *)
(* --overwrite-modified covers no file a user has edited by then.          *)
LEMMA EmptyIsWhole == Whole(EmptyTree)
  BY ReleaseAssumption DEF Whole, EmptyTree, Shipped, Entries

Fits(t, r, changes) ==
    /\ r \in Releases
    /\ Record \in changes
    /\ \A n \in Files \ changes : t[n] \in {Shipped(r, n), Local}

LEMMA PlannedFits ==
    ASSUME NEW t \in Tree, NEW r \in Releases, Whole(t)
    PROVE  Fits(t, r, Changes(t, r))
  <1>1. Record \in Changes(t, r)
    BY DEF Changes
  <1>2. ASSUME NEW n \in Files \ Changes(t, r)
        PROVE  t[n] \in {Shipped(r, n), Local}
    <2>1. CASE Shipped(r, n) # Absent
      BY <1>2, <2>1 DEF Changes
    <2>2. CASE Shipped(r, n) = Absent
      <3>1. ~ (Managed(t, n) /\ Untouched(t, n))
        BY <1>2, <2>2 DEF Changes
      <3>2. t[n] \in {Absent, Local}
        BY <3>1 DEF Whole, Managed, Untouched
      <3> QED BY <3>2, <2>2
    <2> QED BY <2>1, <2>2
  <1> QED BY <1>1, <1>2 DEF Fits

LEMMA InstalledIsWhole ==
    ASSUME NEW t \in Tree, NEW r, NEW changes, Fits(t, r, changes)
    PROVE  Whole(Installed(t, r, changes))
  <1> DEFINE u == Installed(t, r, changes)
  <1>1. u[Record] = r
    BY DEF Installed, Fits, Entries, Shipped
  <1>2. ASSUME NEW n \in Files
        PROVE  u[n] \in {Shipped(r, n), Local}
    BY LocalType DEF Installed, Fits
  <1> QED BY <1>1, <1>2 DEF Whole

LEMMA EditedIsWhole ==
    ASSUME NEW t \in Tree, NEW n \in Files, Whole(t)
    PROVE  Whole([t EXCEPT ![n] = Local])
  BY LocalType DEF Whole, Tree, TreeOf

LEMMA EditedFits ==
    ASSUME NEW t \in Tree, NEW r, NEW changes, Fits(t, r, changes),
           NEW n \in Files
    PROVE  Fits([t EXCEPT ![n] = Local], r, changes)
  BY LocalType DEF Fits, Tree, TreeOf

LEMMA PlanPassesEdits ==
    ASSUME NEW t \in Tree, NEW r \in Releases, Installable(t, r, FALSE),
           NEW n \in Files, t[n] = Local
    PROVE  n \notin Changes(t, r)
  <1>1. n \in Entries /\ n # Record
    BY LocalType
  <1>2. t[Record] \in Releases \cup {NoRelease}
    BY DEF Tree, TreeOf, ContentOf, Entries
  <1>3. Shipped(r, n) # Local /\ Shipped(t[Record], n) # Local
    BY <1>1, <1>2, ShippedType
  <1>4. t[n] # Absent
    BY ReleaseAssumption
  <1>5. ~ Untouched(t, n)
    BY <1>3 DEF Untouched
  <1>6. Shipped(r, n) = Absent
    BY <1>3, <1>4, <1>5 DEF Installable
  <1> QED BY <1>1, <1>5, <1>6 DEF Changes

-----------------------------------------------------------------------------
(* Type correctness, with what a restoring command relies on.              *)
Typed ==
    /\ TypeOK
    /\ pc \in {"recovering", "rollback"} => todo \subseteq DOMAIN journal.saved

LEMMA TypedInit == Init => Typed
  <1> SUFFICES ASSUME Init PROVE Typed
    OBVIOUS
  <1>1. journal.saved \in Saved
    <2>1. journal.saved \in TreeOf({})
      BY DEF Init, TreeOf
    <2> QED BY <2>1 DEF Saved
  <1>2. journal \in Journal
    BY <1>1 DEF Init, Journal
  <1>3. disk \in Tree
    BY EmptyType DEF Init
  <1> QED
    BY <1>2, <1>3 DEF Init, Typed, TypeOK, Control, Command, NoCommand

LEMMA TypedStep == Typed /\ [Next]_vars => Typed'
  <1> SUFFICES ASSUME Typed, [Next]_vars PROVE Typed'
    OBVIOUS
  <1>0. /\ disk \in Tree
        /\ journal \in Journal
        /\ pc \in Control
        /\ cmd \in Command
        /\ todo \in SUBSET Entries
        /\ late \in SUBSET Files
    BY DEF Typed, TypeOK
  <1>l. late' \in SUBSET Files
    BY <1>0 DEF Next, Edit, vars
  <1>s. /\ DOMAIN journal.saved \in SUBSET Entries
        /\ \A n \in DOMAIN journal.saved : journal.saved[n] \in ContentOf(n)
    BY <1>0, SavedType DEF Journal
  <1>1. CASE UNCHANGED vars
    BY <1>1, <1>0, <1>l DEF vars, Typed, TypeOK
  <1>2. CASE Lock
    BY <1>2, <1>0, <1>l DEF Lock, Typed, TypeOK, Control
  <1>3. CASE Recover
    BY <1>3, <1>0, <1>l, <1>s DEF Recover, Typed, TypeOK, Control
  <1>4. CASE Start
    BY <1>4, <1>0, <1>l DEF Start, Typed, TypeOK, Control
  <1>5. ASSUME NEW r \in Releases, NEW overwrite \in BOOLEAN,
               PlanInstall(r, overwrite)
        PROVE  Typed'
    BY <1>5, <1>0, <1>l, ChangesType
    DEF PlanInstall, Typed, TypeOK, Control, Command
  <1>6. CASE WriteJournal
    <2>1. cmd.changes \in SUBSET Entries /\ cmd.release \in Releases \cup {NoRelease}
      BY <1>0 DEF Command
    <2>2. journal'.saved \in Saved
      BY <1>6, <2>1, <1>0, <1>l, RestrictedTree DEF WriteJournal, Saved
    <2>3. journal' \in Journal
      BY <1>6, <2>1, <2>2 DEF WriteJournal, Journal
    <2> QED
      BY <1>6, <1>0, <1>l, <2>1, <2>3 DEF WriteJournal, Typed, TypeOK, Control
  <1>7. CASE Commit
    BY <1>7, <1>0, <1>l DEF Commit, Typed, TypeOK, Control, Journal
  <1>8. CASE Fail
    BY <1>8, <1>0, <1>l, <1>s DEF Fail, Typed, TypeOK, Control
  <1>9. CASE Restored
    <2>1. journal' \in Journal /\ disk' \in Tree
      BY <1>9, <1>0, <1>l DEF Restored, Journal
    <2>2. pc' \in {"recovered", "idle"}
      BY <1>9 DEF Restored, Idle
    <2>3. cmd' \in Command /\ todo' \in SUBSET Entries
      BY <1>9, <1>0, <1>l, NoCommandType DEF Restored, Idle
    <2> QED BY <1>l, <2>1, <2>2, <2>3 DEF Typed, TypeOK, Control
  <1>10. CASE Return
    BY <1>10, <1>0, <1>l DEF Return, Idle, Typed, TypeOK, Control, Command, NoCommand
  <1>11. CASE Crash
    BY <1>11, <1>0, <1>l DEF Crash, Idle, Typed, TypeOK, Control, Command, NoCommand
  <1>12. ASSUME NEW n \in Entries, Apply(n)
         PROVE  Typed'
    <2>1. cmd.release \in Releases \cup {NoRelease}
      BY <1>0 DEF Command
    <2>2. disk' \in Tree
      BY <1>12, <1>0, <1>l, <2>1, ShippedType, UpdatedTree DEF Apply, Tree
    <2> QED BY <1>12, <1>0, <1>l, <2>2 DEF Apply, Typed, TypeOK, Control
  <1>13. ASSUME NEW n \in Entries, Restore(n)
         PROVE  Typed'
    <2>1. journal.saved[n] \in ContentOf(n)
      BY <1>13, <1>s DEF Restore, Last, Typed
    <2>2. disk' \in Tree
      BY <1>13, <1>0, <1>l, <2>1, UpdatedTree DEF Restore, Tree
    <2> QED BY <1>13, <1>0, <1>l, <2>2 DEF Restore, Typed, TypeOK, Control
  <1>14. ASSUME NEW n \in Files \ {VersionFile}, Edit(n)
         PROVE  Typed'
    <2>1. disk' \in Tree
      BY <1>14, <1>0, <1>l, LocalType, UpdatedTree DEF Edit, Tree
    <2> QED BY <1>14, <1>0, <1>l, <2>1 DEF Edit, Typed, TypeOK
  <1> QED
    BY <1>1, <1>2, <1>3, <1>4, <1>5, <1>6, <1>7, <1>8, <1>9, <1>10, <1>11,
       <1>12, <1>13, <1>14 DEF Next, CommandStep

(* Whatever fails or dies at any moment, late interrupts included, tree,   *)
(* journal and the locals of the command keep their types: a rollback      *)
(* finds an old content for every entry it has to restore.                 *)
THEOREM DeploymentTypeCorrect == Spec => []TypeOK
  <1>1. Typed => TypeOK
    BY DEF Typed
  <1> QED BY <1>1, TypedInit, TypedStep, PTL DEF Spec

-----------------------------------------------------------------------------
(* Edits, late interrupts included.  A file that shows an edit and is      *)
(* covered was modified in the plan's eyes, is in the journal as edited,   *)
(* or was edited later.                                                    *)
NothingPending ==
    pc \in {"recovered", "running", "preparing", "committed"} =>
        journal.state # "applying"

PlanSaw ==
    pc = "preparing" =>
        \A n \in Files \cap cmd.changes :
            disk[n] = Local => cmd.overwrite \/ n \in late

ApplyingSaw ==
    pc = "applying" =>
        /\ journal.state = "applying"
        /\ \A n \in Files \cap todo :
              disk[n] = Local => cmd.overwrite \/ n \in late \cap Covered
        /\ \A n \in Files \cap DOMAIN journal.saved :
              disk[n] = Local => n \in todo

CommittedSaw ==
    pc = "committed" =>
        \A n \in Files \cap DOMAIN journal.saved : disk[n] # Local

JournalSaw ==
    /\ pc = "recovering" => journal.state = "applying"
    /\ journal.state = "applying" \/ pc = "rollback" =>
          \A n \in Files \cap DOMAIN journal.saved :
              disk[n] = Local =>
                  journal.saved[n] = Local \/ n \in late \cap Covered

EditsSeen == /\ Typed /\ NothingPending
             /\ PlanSaw /\ ApplyingSaw /\ CommittedSaw /\ JournalSaw

LEMMA EditsSeenInit == Init => EditsSeen
  BY TypedInit
  DEF Init, EditsSeen, NothingPending, PlanSaw, ApplyingSaw, CommittedSaw,
      JournalSaw

LEMMA NothingPendingStep ==
    Typed /\ NothingPending /\ [Next]_vars => NothingPending'
  <1> SUFFICES ASSUME Typed, NothingPending, [Next]_vars
               PROVE  NothingPending'
    OBVIOUS
  <1>1. journal \in Journal
    BY DEF Typed, TypeOK
  <1> QED
    BY <1>1
    DEF Next, CommandStep, vars, NothingPending, Lock, Recover, Start,
        PlanInstall, WriteJournal, Apply, Commit, Fail, Restore, Restored,
        Return, Crash, Idle, Edit, Journal

LEMMA EditsSeenStep == EditsSeen /\ [Next]_vars => EditsSeen'
  <1> SUFFICES ASSUME EditsSeen, [Next]_vars PROVE EditsSeen'
    OBVIOUS
  <1>t. Typed' /\ NothingPending'
    BY TypedStep, NothingPendingStep DEF EditsSeen
  <1>0. /\ disk \in Tree /\ DOMAIN disk = Entries
        /\ cmd \in Command
    BY DEF EditsSeen, Typed, TypeOK, Tree, TreeOf
  <1>d. DEFINE Saw == PlanSaw /\ ApplyingSaw /\ CommittedSaw /\ JournalSaw
  <1>i. Saw
    BY DEF EditsSeen
  <1> SUFFICES Saw'
    BY <1>t DEF EditsSeen
  <1>1. CASE UNCHANGED vars
    BY <1>1, <1>i
    DEF vars, PlanSaw, ApplyingSaw, CommittedSaw, JournalSaw, Covered
  <1>2. ASSUME late' = late \cap Covered', Lock \/ Start \/ Recover
        PROVE  Saw'
    BY <1>2, <1>i
    DEF Lock, Start, Recover, PlanSaw, ApplyingSaw, CommittedSaw, JournalSaw,
        Covered
  <1>3. ASSUME late' = late \cap Covered',
               NEW r \in Releases, NEW overwrite \in BOOLEAN,
               PlanInstall(r, overwrite)
        PROVE  Saw'
    <2>1. \A n \in Files \cap Changes(disk, r) : disk[n] = Local => overwrite
      BY <1>0, <1>3, PlanPassesEdits DEF PlanInstall
    <2>2. journal' = journal /\ journal.state # "applying"
      BY <1>3 DEF EditsSeen, NothingPending, PlanInstall
    <2> QED
      BY <1>3, <2>1, <2>2
      DEF PlanInstall, PlanSaw, ApplyingSaw, CommittedSaw, JournalSaw
  <1>4. ASSUME late' = late \cap Covered', WriteJournal
        PROVE  Saw'
    <2>1. Covered' = cmd.changes
      BY <1>4 DEF WriteJournal, Covered
    <2>2. \A n \in Files \cap cmd.changes :
             disk[n] = Local => cmd.overwrite \/ n \in late
      BY <1>4, <1>i DEF WriteJournal, PlanSaw
    <2> QED
      BY <1>4, <2>1, <2>2
      DEF WriteJournal, PlanSaw, ApplyingSaw, CommittedSaw, JournalSaw
  <1>5. ASSUME late' = late \cap Covered', NEW n \in Entries, Apply(n)
        PROVE  Saw'
    <2>1. /\ pc = "applying" /\ pc' = "applying"
          /\ journal' = journal /\ cmd' = cmd
          /\ todo' = todo \ {n}
          /\ \A m \in Entries :
                disk'[m] = IF m = n THEN Shipped(cmd.release, n) ELSE disk[m]
      BY <1>0, <1>5 DEF Apply
    <2>2. n \in Files => Shipped(cmd.release, n) # Local
      BY <1>0, ShippedType DEF Command
    <2>3. \A m \in Files : m \in Entries
      BY LocalType
    <2>4. Covered' = Covered
      BY <2>1 DEF Covered
    <2> QED
      BY <1>5, <1>i, <2>1, <2>2, <2>3, <2>4
      DEF PlanSaw, ApplyingSaw, CommittedSaw, JournalSaw
  <1>6. ASSUME late' = late \cap Covered', Commit
        PROVE  Saw'
    BY <1>6, <1>i
    DEF Commit, PlanSaw, ApplyingSaw, CommittedSaw, JournalSaw
  <1>7. ASSUME late' = late \cap Covered', Fail
        PROVE  Saw'
    BY <1>7, <1>i
    DEF Fail, PlanSaw, ApplyingSaw, CommittedSaw, JournalSaw, Covered
  <1>8. ASSUME late' = late \cap Covered', NEW n \in Entries, Restore(n)
        PROVE  Saw'
    <2>1. /\ pc \in {"recovering", "rollback"} /\ pc' = pc
          /\ journal' = journal /\ cmd' = cmd
          /\ \A m \in Entries :
                disk'[m] = IF m = n THEN journal.saved[n] ELSE disk[m]
      BY <1>0, <1>8 DEF Restore
    <2>2. \A m \in Files : m \in Entries
      BY LocalType
    <2>3. Covered' = Covered
      BY <2>1 DEF Covered
    <2> QED
      BY <1>8, <1>i, <2>1, <2>2, <2>3
      DEF PlanSaw, ApplyingSaw, CommittedSaw, JournalSaw
  <1>9. ASSUME late' = late \cap Covered', Restored \/ Return \/ Crash
        PROVE  Saw'
    <2>1. pc' \in {"idle", "recovered"} /\ disk' = disk
      BY <1>9 DEF Restored, Return, Crash, Idle
    <2>2. CASE Restored \/ Return
      <3>1. journal \in Journal
        BY DEF EditsSeen, Typed, TypeOK
      <3>2. journal'.state # "applying"
        BY <2>2, <3>1 DEF Restored, Return, Journal, EditsSeen, NothingPending
      <3> QED
        BY <2>1, <3>2 DEF PlanSaw, ApplyingSaw, CommittedSaw, JournalSaw
    <2>3. CASE Crash
      <3>1. pc' = "idle" /\ pc # "preparing" /\ journal' = journal
        BY <2>3 DEF Crash, Idle
      <3>2. Covered' = Covered
        BY <3>1 DEF Covered
      <3>3. JournalSaw'
        BY <1>9, <1>i, <2>1, <3>1, <3>2 DEF JournalSaw
      <3> QED BY <3>1, <3>3 DEF PlanSaw, ApplyingSaw, CommittedSaw
    <2> QED BY <1>9, <2>2, <2>3
  <1>10. ASSUME NEW n \in Files, Edit(n)
         PROVE  Saw'
    <2>1. /\ pc \in {"idle", "running", "preparing"}
          /\ journal' = journal /\ pc' = pc /\ cmd' = cmd
          /\ late' = IF n \in Covered THEN late \cup {n} ELSE late
          /\ \A m \in Files : disk'[m] = IF m = n THEN Local ELSE disk[m]
      BY <1>0, <1>10, LocalType DEF Edit
    <2>2. Covered' = Covered
      BY <2>1 DEF Covered
    <2>3. \A m \in Files \cap Covered :
             disk'[m] = Local => disk[m] = Local \/ m \in late'
      BY <2>1
    <2>4. /\ pc = "preparing" => cmd.changes \subseteq Covered
          /\ journal.state = "applying" =>
                DOMAIN journal.saved \subseteq Covered
      BY DEF Covered
    <2>5. PlanSaw'
      BY <1>i, <2>1, <2>3, <2>4 DEF PlanSaw
    <2>6. JournalSaw'
      BY <1>i, <2>1, <2>2, <2>3, <2>4 DEF JournalSaw
    <2> QED BY <2>1, <2>5, <2>6 DEF ApplyingSaw, CommittedSaw
  <1> QED
    BY <1>1, <1>2, <1>3, <1>4, <1>5, <1>6, <1>7, <1>8, <1>9, <1>10
    DEF Next, CommandStep

(* Nothing a user has put into a file is overwritten or deleted by a step  *)
(* of any command that was not told to, in the middle of a transaction, a  *)
(* rollback or a recovery either, unless it was put there after the plan   *)
(* or the crash: for late interrupts, too.                                 *)
THEOREM EditsAreKept == Spec => EditsKept
  <1>1. EditsSeen /\ [Next]_vars =>
           [\A n \in Files : disk[n] = Local /\ disk'[n] # Local
               => cmd.overwrite \/ n \in late]_vars
    <2> SUFFICES ASSUME EditsSeen, [Next]_vars, NEW n \in Files,
                        disk[n] = Local, disk'[n] # Local
                 PROVE  cmd.overwrite \/ n \in late
      OBVIOUS
    <2>0. DOMAIN disk = Entries /\ n \in Entries
      BY LocalType DEF EditsSeen, Typed, TypeOK, Tree, TreeOf
    <2>1. ASSUME NEW m \in Entries, Apply(m)
          PROVE  cmd.overwrite \/ n \in late
      <3>1. m = n
        BY <2>0, <2>1 DEF Apply
      <3> QED
        BY <2>1, <3>1 DEF EditsSeen, ApplyingSaw, Apply, First
    <2>2. ASSUME NEW m \in Entries, Restore(m)
          PROVE  cmd.overwrite \/ n \in late
      <3>1. m = n /\ journal.saved[n] # Local
        BY <2>0, <2>2 DEF Restore
      <3>2. n \in DOMAIN journal.saved
        BY <2>2, <3>1 DEF EditsSeen, Typed, Restore, Last
      <3> QED
        BY <2>2, <3>1, <3>2 DEF EditsSeen, JournalSaw, Restore
    <2>3. ASSUME NEW m \in Files, Edit(m)
          PROVE  FALSE
      BY <2>0, <2>3 DEF Edit
    <2>4. ASSUME \/ UNCHANGED vars \/ Lock \/ Recover \/ Start
                 \/ WriteJournal \/ Commit \/ Fail \/ Restored \/ Return
                 \/ Crash
                 \/ \E r \in Releases, overwrite \in BOOLEAN :
                       PlanInstall(r, overwrite)
          PROVE  disk' = disk
      BY <2>4
      DEF vars, Lock, Recover, Start, PlanInstall, WriteJournal, Commit,
          Fail, Restored, Return, Crash
    <2> QED BY <2>1, <2>2, <2>3, <2>4 DEF Next, CommandStep
  <1> QED BY <1>1, EditsSeenInit, EditsSeenStep, PTL DEF Spec, EditsKept

-----------------------------------------------------------------------------
(* What the moments of a transaction keep true: between commands nothing   *)
(* is half done that the journal does not undo, the plan fits the tree, or *)
(* what the journal makes of it, until it is carried out, and in the       *)
(* middle of writing or restoring the entries that are through have their  *)
(* new or their old contents.                                              *)
Calm == ~ LateInterrupts

Recoverable == Whole(Effective)

PlanFits ==
    pc \in {"preparing", "applying"} =>
        Fits(Effective, cmd.release, cmd.changes)

HalfApplied ==
    pc = "applying" =>
        /\ journal.state = "applying"
        /\ DOMAIN journal.saved = cmd.changes
        /\ todo \subseteq cmd.changes
        /\ \A n \in cmd.changes \ todo : disk[n] = Shipped(cmd.release, n)

HalfRestored ==
    pc \in {"recovering", "rollback"} =>
        /\ journal.state = "applying"
        /\ todo \subseteq DOMAIN journal.saved
        /\ \A n \in DOMAIN journal.saved \ todo : disk[n] = journal.saved[n]

IInv == /\ Typed /\ Recoverable /\ NothingPending
        /\ PlanFits /\ HalfApplied /\ HalfRestored

LEMMA EffectiveType == Typed => Effective \in Tree
  <1> SUFFICES ASSUME Typed PROVE Effective \in Tree
    OBVIOUS
  <1>1. /\ disk \in Tree
        /\ \A n \in DOMAIN journal.saved : journal.saved[n] \in ContentOf(n)
    BY SavedType DEF Typed, TypeOK, Journal
  <1> QED BY <1>1 DEF Effective, Tree, TreeOf

(* Writing or restoring an entry the journal has saved changes nothing.    *)
LEMMA CoveredWrite ==
    ASSUME Typed, journal.state = "applying", journal' = journal,
           NEW n \in DOMAIN journal.saved, NEW c,
           disk' = [disk EXCEPT ![n] = c]
    PROVE  Effective' = Effective
  <1>1. disk \in Tree
    BY DEF Typed, TypeOK
  <1>2. DOMAIN disk = Entries
    BY <1>1 DEF Tree, TreeOf
  <1>3. \A m \in Entries : m # n => disk'[m] = disk[m]
    BY <1>2
  <1> QED BY <1>3 DEF Effective

LEMMA JournalWritten ==
    ASSUME IInv, WriteJournal
    PROVE  Effective = disk /\ Effective' = disk
  <1>1. Effective = disk
    BY DEF IInv, NothingPending, WriteJournal, Effective
  <1>2. disk \in Tree
    BY DEF IInv, Typed, TypeOK
  <1>3. disk = [n \in Entries |-> disk[n]]
    BY <1>2 DEF Tree, TreeOf
  <1>4. /\ journal'.state = "applying"
        /\ journal'.saved = [n \in cmd.changes |-> disk[n]]
        /\ disk' = disk
    BY DEF WriteJournal
  <1>5. Effective' = [n \in Entries |-> disk[n]]
    BY <1>4 DEF Effective
  <1> QED BY <1>1, <1>3, <1>5

LEMMA Committed ==
    ASSUME IInv, Commit
    PROVE  Effective' = Installed(Effective, cmd.release, cmd.changes)
  <1>1. Effective' = disk
    BY DEF Commit, Effective
  <1>2. disk \in Tree
    BY DEF IInv, Typed, TypeOK
  <1>3. disk = [n \in Entries |-> disk[n]]
    BY <1>2 DEF Tree, TreeOf
  <1>4. /\ journal.state = "applying"
        /\ DOMAIN journal.saved = cmd.changes
        /\ \A n \in cmd.changes : disk[n] = Shipped(cmd.release, n)
    BY DEF IInv, HalfApplied, Commit
  <1>5. \A n \in Entries : n \notin cmd.changes => Effective[n] = disk[n]
    BY <1>4 DEF Effective
  <1>6. Installed(Effective, cmd.release, cmd.changes)
           = [n \in Entries |-> disk[n]]
    BY <1>4, <1>5 DEF Installed
  <1> QED BY <1>1, <1>3, <1>6

LEMMA RestoredTree ==
    ASSUME IInv, Restored
    PROVE  Effective' = Effective
  <1>1. Effective' = disk
    BY DEF Restored, Effective
  <1>2. disk \in Tree
    BY DEF IInv, Typed, TypeOK
  <1>3. disk = [n \in Entries |-> disk[n]]
    BY <1>2 DEF Tree, TreeOf
  <1>4. /\ journal.state = "applying"
        /\ \A n \in DOMAIN journal.saved : disk[n] = journal.saved[n]
    BY DEF IInv, HalfRestored, Restored
  <1>5. Effective = [n \in Entries |-> disk[n]]
    BY <1>4 DEF Effective
  <1> QED BY <1>1, <1>3, <1>5

LEMMA Edited ==
    ASSUME Typed, NEW n \in Files, Edit(n)
    PROVE  Effective' \in {Effective, [Effective EXCEPT ![n] = Local]}
  <1>1. disk \in Tree /\ n \in Entries
    BY LocalType DEF Typed, TypeOK
  <1>2. DOMAIN disk = Entries
    BY <1>1 DEF Tree, TreeOf
  <1>3. disk' = [disk EXCEPT ![n] = Local] /\ journal' = journal
    BY DEF Edit
  <1>4. CASE journal.state # "applying"
    BY <1>3, <1>4 DEF Effective
  <1>5. CASE journal.state = "applying" /\ n \in DOMAIN journal.saved
    BY <1>3, <1>5, CoveredWrite
  <1>6. CASE journal.state = "applying" /\ n \notin DOMAIN journal.saved
    <2>1. \A m \in Entries : disk'[m] = IF m = n THEN Local ELSE disk[m]
      BY <1>1, <1>2, <1>3
    <2>2. Effective' = [m \in Entries |-> IF m \in DOMAIN journal.saved
                                    THEN journal.saved[m] ELSE disk'[m]]
      BY <1>3, <1>6 DEF Effective
    <2>3. Effective = [m \in Entries |-> IF m \in DOMAIN journal.saved
                                    THEN journal.saved[m] ELSE disk[m]]
      BY <1>6 DEF Effective
    <2> QED BY <1>1, <1>6, <2>1, <2>2, <2>3
  <1> QED BY <1>4, <1>5, <1>6

(* Every step plans an installation, gives one up, installs what was       *)
(* planned as a whole, is an edit, or changes nothing that counts.         *)
Mapped ==
    \/ UNCHANGED <<Effective, Planned>>
    \/ UNCHANGED Effective /\ Planned' = NoCommand
    \/ \E r \in Releases, overwrite \in BOOLEAN :
          /\ Planned = NoCommand
          /\ Installable(Effective, r, overwrite)
          /\ Planned' = [release |-> r, overwrite |-> overwrite,
                         changes |-> Changes(Effective, r)]
          /\ UNCHANGED Effective
    \/ \E n \in Files \ {VersionFile} :
          /\ Effective' = [Effective EXCEPT ![n] = Local]
          /\ UNCHANGED Planned
    \/ /\ pc = "applying"
       /\ Planned = cmd /\ Planned' = NoCommand
       /\ Effective' = Installed(Effective, cmd.release, cmd.changes)

LEMMA MappedStep ==
    ASSUME IInv, Calm, [Next]_vars
    PROVE  Mapped
  <1>1. CASE UNCHANGED vars
    BY <1>1 DEF vars, Effective, Planned, Mapped
  <1>2. CASE WriteJournal
    <2>1. UNCHANGED Effective
      BY <1>2, JournalWritten
    <2>2. UNCHANGED Planned
      BY <1>2 DEF WriteJournal, Planned
    <2> QED BY <2>1, <2>2 DEF Mapped
  <1>3. CASE Commit
    <2>1. /\ pc = "applying"
          /\ Planned = cmd /\ Planned' = NoCommand
      BY <1>3 DEF Commit, Planned
    <2> QED BY <1>3, <2>1, Committed DEF Mapped
  <1>4. CASE Restored
    <2>1. UNCHANGED Planned
      BY <1>4 DEF Restored, Idle, Planned
    <2> QED BY <1>4, <2>1, RestoredTree DEF Mapped
  <1>5. ASSUME NEW n \in Entries, Apply(n)
        PROVE  Mapped
    <2>1. UNCHANGED Effective
      BY <1>5, CoveredWrite DEF Apply, First, IInv, HalfApplied
    <2>2. UNCHANGED Planned
      BY <1>5 DEF Apply, Planned
    <2> QED BY <2>1, <2>2 DEF Mapped
  <1>6. ASSUME NEW n \in Entries, Restore(n)
        PROVE  Mapped
    <2>1. UNCHANGED Effective
      BY <1>6, CoveredWrite DEF Restore, Last, IInv, HalfRestored
    <2>2. UNCHANGED Planned
      BY <1>6 DEF Restore, Planned
    <2> QED BY <2>1, <2>2 DEF Mapped
  <1>7. ASSUME NEW n \in Files \ {VersionFile}, Edit(n)
        PROVE  Mapped
    <2>1. \/ Effective' = Effective
          \/ Effective' = [Effective EXCEPT ![n] = Local]
      BY <1>7, Edited DEF IInv
    <2>2. UNCHANGED Planned
      BY <1>7 DEF Edit, Planned
    <2> QED BY <2>1, <2>2 DEF Mapped
  <1>8. ASSUME NEW r \in Releases, NEW overwrite \in BOOLEAN,
               PlanInstall(r, overwrite)
        PROVE  Mapped
    <2>1. Effective = disk /\ UNCHANGED Effective
      BY <1>8 DEF IInv, NothingPending, PlanInstall, Effective
    <2>2. Planned = NoCommand /\ Planned' = cmd'
      BY <1>8 DEF PlanInstall, Planned
    <2> QED BY <1>8, <2>1, <2>2 DEF PlanInstall, Mapped
  <1>9. CASE Fail \/ Return \/ Crash
    <2>1. UNCHANGED Effective
      BY <1>9 DEF Fail, Return, Crash, Effective
    <2>2. Planned' = NoCommand
      BY <1>9 DEF Fail, Return, Crash, Idle, Planned
    <2> QED BY <2>1, <2>2 DEF Mapped
  <1>10. CASE Lock \/ Recover \/ Start
    <2>1. UNCHANGED Effective
      BY <1>10 DEF Lock, Recover, Start, Effective
    <2>2. UNCHANGED Planned
      BY <1>10 DEF Lock, Recover, Start, Planned
    <2> QED BY <2>1, <2>2 DEF Mapped
  <1> QED
    BY <1>1, <1>2, <1>3, <1>4, <1>5, <1>6, <1>7, <1>8, <1>9, <1>10
    DEF Next, CommandStep

LEMMA IInit == Init => IInv
  <1> SUFFICES ASSUME Init PROVE IInv
    OBVIOUS
  <1>1. Effective = EmptyTree
    BY DEF Init, Effective
  <1>2. Recoverable
    BY <1>1, EmptyIsWhole DEF Recoverable
  <1>3. pc = "idle"
    BY DEF Init
  <1> QED
    BY <1>2, <1>3, TypedInit
    DEF IInv, NothingPending, PlanFits, HalfApplied, HalfRestored

LEMMA RecoverableStep ==
    ASSUME IInv, Calm, [Next]_vars
    PROVE  Recoverable'
  <1>1. Effective \in Tree /\ Whole(Effective)
    BY EffectiveType DEF IInv, Recoverable
  <1>2. pc = "applying" => Fits(Effective, cmd.release, cmd.changes)
    BY DEF IInv, PlanFits
  <1>3. Whole(Effective')
    BY <1>1, <1>2, MappedStep, InstalledIsWhole, EditedIsWhole DEF Mapped
  <1> QED BY <1>3 DEF Recoverable, Whole

LEMMA PlanFitsStep ==
    ASSUME IInv, Calm, [Next]_vars
    PROVE  PlanFits'
  <1>0. PlanFits /\ Effective \in Tree
    BY EffectiveType DEF IInv
  <1>1. ASSUME NEW r \in Releases, NEW overwrite \in BOOLEAN,
               PlanInstall(r, overwrite)
        PROVE  PlanFits'
    <2>1. Effective = disk /\ Effective' = disk
      BY <1>1 DEF IInv, NothingPending, PlanInstall, Effective
    <2>2. Fits(disk, r, Changes(disk, r))
      BY <1>0, <2>1, PlannedFits DEF IInv, Recoverable
    <2>3. cmd'.release = r /\ cmd'.changes = Changes(disk, r)
      BY <1>1 DEF PlanInstall
    <2> QED BY <2>1, <2>2, <2>3 DEF PlanFits, Fits
  <1>2. ASSUME pc \in {"preparing", "applying"}, UNCHANGED <<Effective, cmd>>
        PROVE  PlanFits'
    BY <1>0, <1>2 DEF PlanFits, Fits
  <1>3. ASSUME pc' \notin {"preparing", "applying"}
        PROVE  PlanFits'
    BY <1>3 DEF PlanFits
  <1>4. ASSUME NEW n \in Files, Edit(n)
        PROVE  PlanFits'
    <2>1. /\ cmd' = cmd /\ pc' = pc
          /\ Effective' \in {Effective, [Effective EXCEPT ![n] = Local]}
      BY <1>4, Edited DEF IInv, Edit
    <2>2. CASE pc = "preparing"
      <3>1. Fits(Effective, cmd.release, cmd.changes)
        BY <1>0, <2>2 DEF PlanFits
      <3>2. Fits([Effective EXCEPT ![n] = Local], cmd.release, cmd.changes)
        BY <1>0, <3>1, EditedFits
      <3> QED BY <2>1, <3>1, <3>2 DEF PlanFits, Fits
    <2> QED BY <1>3, <1>4, <2>1, <2>2 DEF Edit
  <1>5. ASSUME NEW n \in Entries, Apply(n)
        PROVE  PlanFits'
    <2>1. UNCHANGED Effective
      BY <1>5, CoveredWrite DEF Apply, First, IInv, HalfApplied
    <2> QED BY <1>2, <1>5, <2>1 DEF Apply
  <1>6. CASE WriteJournal
    <2>1. UNCHANGED Effective
      BY <1>6, JournalWritten
    <2> QED BY <1>2, <1>6, <2>1 DEF WriteJournal
  <1>7. ASSUME NEW n \in Entries, Restore(n)
        PROVE  PlanFits'
    BY <1>3, <1>7 DEF Restore
  <1>8. Lock \/ Recover \/ Start \/ Commit \/ Fail \/ Restored \/ Return
           \/ Crash => PlanFits'
    BY <1>3 DEF Lock, Recover, Start, Commit, Fail, Restored, Return, Crash,
                Idle
  <1>9. CASE UNCHANGED vars
    BY <1>0, <1>9 DEF vars, PlanFits, Fits, Effective
  <1> QED
    BY <1>1, <1>4, <1>5, <1>6, <1>7, <1>8, <1>9 DEF Next, CommandStep

LEMMA HalfAppliedStep ==
    ASSUME IInv, Calm, [Next]_vars
    PROVE  HalfApplied'
  <1>0. HalfApplied /\ Typed
    BY DEF IInv
  <1>1. CASE WriteJournal
    BY <1>1 DEF WriteJournal, HalfApplied
  <1>2. ASSUME NEW n \in Entries, Apply(n)
        PROVE  HalfApplied'
    <2>1. DOMAIN disk = Entries /\ cmd.changes \subseteq Entries
      BY <1>0 DEF Typed, TypeOK, Tree, TreeOf, Command
    <2>2. \A m \in cmd.changes \ todo' : disk'[m] = Shipped(cmd.release, m)
      BY <1>0, <1>2, <2>1 DEF Apply, First, HalfApplied
    <2> QED BY <1>0, <1>2, <2>2 DEF Apply, HalfApplied
  <1>3. CASE UNCHANGED vars
    BY <1>0, <1>3 DEF vars, HalfApplied
  <1>4. ASSUME NEW n \in Files, Edit(n)
        PROVE  pc' # "applying"
    BY <1>4 DEF Edit
  <1>5. ASSUME NEW n \in Entries, Restore(n)
        PROVE  pc' # "applying"
    BY <1>5 DEF Restore
  <1>6. \/ Lock \/ Recover \/ Start \/ Commit \/ Fail \/ Restored \/ Return
        \/ Crash
        \/ \E r \in Releases, overwrite \in BOOLEAN : PlanInstall(r, overwrite)
        => pc' # "applying"
    BY DEF Lock, Recover, Start, PlanInstall, Commit, Fail, Restored,
           Return, Crash, Idle
  <1>7. pc' # "applying" => HalfApplied'
    BY DEF HalfApplied
  <1> QED
    BY <1>1, <1>2, <1>3, <1>4, <1>5, <1>6, <1>7 DEF Next, CommandStep

LEMMA HalfRestoredStep ==
    ASSUME IInv, Calm, [Next]_vars
    PROVE  HalfRestored'
  <1>0. HalfRestored /\ Typed /\ HalfApplied
    BY DEF IInv
  <1>1. CASE Recover \/ Fail
    BY <1>0, <1>1 DEF Recover, Fail, Calm, HalfApplied, HalfRestored
  <1>2. ASSUME NEW n \in Entries, Restore(n)
        PROVE  HalfRestored'
    <2>1. /\ journal.state = "applying"
          /\ todo \subseteq DOMAIN journal.saved
          /\ \A m \in DOMAIN journal.saved \ todo : disk[m] = journal.saved[m]
      BY <1>0, <1>2 DEF HalfRestored, Restore
    <2>2. /\ n \in todo
          /\ disk' = [disk EXCEPT ![n] = journal.saved[n]]
          /\ todo' = todo \ {n}
          /\ journal' = journal
      BY <1>2 DEF Restore, Last
    <2>3. DOMAIN disk = Entries
      BY <1>0 DEF Typed, TypeOK, Tree, TreeOf
    <2>4. \A m \in DOMAIN journal.saved \ todo' : disk'[m] = journal.saved[m]
      BY <1>2, <2>1, <2>2, <2>3
    <2> QED BY <2>1, <2>2, <2>4 DEF HalfRestored
  <1>3. CASE UNCHANGED vars
    BY <1>0, <1>3 DEF vars, HalfRestored
  <1>4. ASSUME NEW n \in Files, Edit(n)
        PROVE  pc' \notin {"recovering", "rollback"}
    BY <1>4 DEF Edit
  <1>5. ASSUME NEW n \in Entries, Apply(n)
        PROVE  pc' \notin {"recovering", "rollback"}
    BY <1>5 DEF Apply
  <1>6. \/ Lock \/ Start \/ WriteJournal \/ Commit \/ Restored \/ Return
        \/ Crash
        \/ \E r \in Releases, overwrite \in BOOLEAN : PlanInstall(r, overwrite)
        => pc' \notin {"recovering", "rollback"}
    BY DEF Lock, Start, PlanInstall, WriteJournal, Commit, Restored,
           Return, Crash, Idle
  <1>7. pc' \notin {"recovering", "rollback"} => HalfRestored'
    BY DEF HalfRestored
  <1> QED
    BY <1>1, <1>2, <1>3, <1>4, <1>5, <1>6, <1>7 DEF Next, CommandStep

LEMMA IStep == Calm /\ IInv /\ [Next]_vars => IInv'
  <1> SUFFICES ASSUME Calm, IInv, [Next]_vars PROVE IInv'
    OBVIOUS
  <1>1. Typed' /\ NothingPending'
    BY TypedStep, NothingPendingStep DEF IInv
  <1> QED
    BY <1>1, RecoverableStep, PlanFitsStep, HalfAppliedStep,
       HalfRestoredStep DEF IInv

LEMMA IAlways ==
    ASSUME Calm
    PROVE  Spec => []IInv
  <1>1. IInv /\ [Next]_vars => IInv'
    BY IStep
  <1> QED BY <1>1, IInit, PTL DEF Spec

(* The application never runs on a mixture of two releases, however many   *)
(* commands failed or died before it was started, and whatever was edited  *)
(* meanwhile.                                                              *)
THEOREM NeverRunsMixed ==
    ASSUME Calm
    PROVE  Spec => []RunningIsWhole
  <1>1. IInv => RunningIsWhole
    BY DEF IInv, NothingPending, Recoverable, Effective, RunningIsWhole
  <1> QED BY <1>1, IAlways, PTL

-----------------------------------------------------------------------------
(* The refinement: what the instance says of Effective is what this module *)
(* says of it.                                                             *)
LEMMA SameShipped == \A r, n : Atomic!Shipped(r, n) = Shipped(r, n)
  BY DEF Atomic!Shipped, Shipped

LEMMA SameInit ==
    Atomic!EmptyTree = EmptyTree /\ Atomic!NoCommand = NoCommand
  BY SameShipped
  DEF Atomic!EmptyTree, EmptyTree, Atomic!Entries, Entries,
      Atomic!NoRelease, NoRelease, Atomic!NoCommand, NoCommand

LEMMA SameInstall ==
    ASSUME NEW t, NEW r, NEW overwrite, NEW changes
    PROVE  /\ Atomic!Installable(t, r, overwrite)
                 <=> Installable(t, r, overwrite)
           /\ Atomic!Changes(t, r) = Changes(t, r)
           /\ Atomic!Installed(t, r, changes) = Installed(t, r, changes)
  <1>1. \A n : /\ Atomic!Managed(t, n) <=> Managed(t, n)
               /\ Atomic!Untouched(t, n) <=> Untouched(t, n)
    BY SameShipped DEF Atomic!Managed, Managed, Atomic!Untouched, Untouched
  <1>2. Atomic!Installable(t, r, overwrite) <=> Installable(t, r, overwrite)
    BY <1>1, SameShipped
    DEF Atomic!Installable, Installable, Atomic!NoRelease, NoRelease
  <1>3. Atomic!Changes(t, r) = Changes(t, r)
    BY <1>1, SameShipped DEF Atomic!Changes, Changes
  <1>4. Atomic!Installed(t, r, changes) = Installed(t, r, changes)
    BY SameShipped DEF Atomic!Installed, Installed, Atomic!Entries, Entries
  <1> QED BY <1>2, <1>3, <1>4

(* The deployer implements the atomic installation: every behaviour of it, *)
(* seen through Effective and Planned, is one in which releases are        *)
(* planned, installed in one step or given up, and users edit files at any *)
(* time in between.                                                        *)
THEOREM DeploymentIsAtomic ==
    ASSUME Calm
    PROVE  Spec => AtomicInstallation
  <1>1. Init => Atomic!Init
    BY SameInit DEF Init, Effective, Planned, Atomic!Init
  <1>2. IInv /\ [Next]_vars => [Atomic!Next]_(Atomic!vars)
    <2> SUFFICES ASSUME IInv, [Next]_vars
                 PROVE  Atomic!Next \/ UNCHANGED Atomic!vars
      OBVIOUS
    <2>1. CASE UNCHANGED <<Effective, Planned>>
      BY <2>1 DEF Atomic!vars
    <2>2. CASE UNCHANGED Effective /\ Planned' = NoCommand
      BY <2>2, SameInit DEF Atomic!Next, Atomic!Abandon
    <2>3. ASSUME NEW r \in Releases, NEW overwrite \in BOOLEAN,
                 /\ Planned = NoCommand
                 /\ Installable(Effective, r, overwrite)
                 /\ Planned' = [release |-> r, overwrite |-> overwrite,
                                changes |-> Changes(Effective, r)]
                 /\ UNCHANGED Effective
          PROVE  Atomic!Next
      <3>1. Atomic!Plan(r, overwrite)
        BY <2>3, SameInit, SameInstall DEF Atomic!Plan
      <3> QED BY <3>1 DEF Atomic!Next
    <2>4. ASSUME NEW n \in Files \ {VersionFile},
                 Effective' = [Effective EXCEPT ![n] = Local],
                 UNCHANGED Planned
          PROVE  Atomic!Next
      BY <2>4 DEF Atomic!Next, Atomic!Edit
    <2>5. CASE /\ pc = "applying"
               /\ Planned = cmd /\ Planned' = NoCommand
               /\ Effective' = Installed(Effective, cmd.release, cmd.changes)
      <3>1. cmd.release \in Releases
        BY <2>5 DEF IInv, PlanFits, Fits
      <3>2. Planned # NoCommand
        <4>1. NoCommand.release = NoRelease
          BY DEF NoCommand
        <4> QED BY <2>5, <3>1, <4>1, ReleaseAssumption
      <3>3. Atomic!Install
        BY <2>5, <3>2, SameInit, SameInstall DEF Atomic!Install
      <3> QED BY <3>3 DEF Atomic!Next
    <2> QED BY <2>1, <2>2, <2>3, <2>4, <2>5, MappedStep DEF Mapped
  <1> QED
    BY <1>1, <1>2, IAlways, PTL DEF Spec, AtomicInstallation, Atomic!Spec
=============================================================================
