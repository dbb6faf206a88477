---------------------------- MODULE ReleaseFiles ----------------------------
(***************************************************************************)
(* What a release of kemo-agent makes of an installation directory         *)
(* (src/deploy/core/sync.py, plan): the files it ships, when it may be     *)
(* installed over what is there, and what is there afterwards.             *)
(*                                                                         *)
(* A tree maps every managed file to its content, and Record - the         *)
(* installation record .kemo-install.json - to the release it names.  The  *)
(* record holds the hashes of the files of that release, so naming the     *)
(* release is as good as holding them.  Files the deployer only seeds,     *)
(* merges or never touches, and modules owned by the user, are left out.   *)
(***************************************************************************)
EXTENDS Integers, FiniteSets

CONSTANTS
    Files,        \* managed files, numbered in the order of a release archive
    Record,       \* the installation record
    VersionFile,  \* version.json, shipped by every release
    Releases,     \* release versions
    Contents,     \* what a release may put into a file
    Local,        \* what a user has put into a file
    Absent,       \* no such file
    Bundle        \* release -> file -> content or Absent

NoRelease == 0

ASSUME ReleaseAssumption ==
    /\ Files \subseteq Nat /\ IsFiniteSet(Files)
    /\ Record \notin Files
    /\ VersionFile \in Files
    /\ Releases \subseteq Nat \ {NoRelease}
    /\ Local \notin Contents /\ Absent \notin Contents /\ Local # Absent
    /\ Bundle \in [Releases -> [Files -> Contents \cup {Absent}]]
    /\ \A r \in Releases : Bundle[r][VersionFile] # Absent

Entries == Files \cup {Record}

\* What release r puts into n; NoRelease ships nothing and has no record.
Shipped(r, n) ==
    CASE n = Record    -> r
      [] r \in Releases /\ n # Record -> Bundle[r][n]
      [] OTHER         -> Absent

\* What may be found in n, and in the entries of S.
ContentOf(n) == IF n = Record THEN Releases \cup {NoRelease}
                              ELSE Contents \cup {Local, Absent}
TreeOf(S) == {t \in [S -> UNION {ContentOf(n) : n \in S}] :
                 \A n \in S : t[n] \in ContentOf(n)}
Tree == TreeOf(Entries)

EmptyTree == [n \in Entries |-> Shipped(NoRelease, n)]

Managed(t, n) == Shipped(t[Record], n) # Absent
Untouched(t, n) == t[n] = Shipped(t[Record], n)

\* Release r may be installed over t: into an empty directory, or over an
\* installation whose version file agrees with its record.  A file that is not
\* managed must not be in the way, a managed one must be as it was installed
\* unless the user gave --overwrite-modified.
Installable(t, r, overwrite) ==
    /\ IF t[Record] = NoRelease
         THEN \A n \in Files : t[n] = Absent
         ELSE Untouched(t, VersionFile)
    /\ \A n \in Files : Shipped(r, n) # Absent /\ t[n] # Absent =>
         IF Managed(t, n) THEN overwrite \/ Untouched(t, n)
                          ELSE t[n] = Shipped(r, n)

\* Mutant: what the release no longer ships is deleted, modified or not.
BlindChanges(t, r) ==
    {n \in Files : IF Shipped(r, n) # Absent
                     THEN t[n] # Shipped(r, n)
                     ELSE Managed(t, n) /\ t[n] # Absent} \cup {Record}

\* The files release r writes or, where it no longer ships them and the user
\* has not modified them, deletes; and the record, always.
Changes(t, r) ==
    {n \in Files : IF Shipped(r, n) # Absent
                     THEN t[n] # Shipped(r, n)
                     ELSE Managed(t, n) /\ Untouched(t, n)} \cup {Record}

\* Carrying out changes that were planned, whatever became of the tree since.
Installed(t, r, changes) ==
    [n \in Entries |-> IF n \in changes THEN Shipped(r, n) ELSE t[n]]

\* What an install command has decided, and that none is under way.
Command == [release   : Releases \cup {NoRelease},
            overwrite : BOOLEAN,
            changes   : SUBSET Entries]

NoCommand == [release |-> NoRelease, overwrite |-> FALSE, changes |-> {}]

\* Everything in the tree is of the release on record, or is the user's.
Whole(t) == \A n \in Files : t[n] \in {Shipped(t[Record], n), Local}
=============================================================================
